---------------------------- MODULE Spec2Model ----------------------------
(***************************************************************************)
(* A model of rudu: the incremental disk-usage scanner                     *)
(* (src/src/scan.rs), its persistent cache store (src/src/cache/mod.rs,    *)
(* src/src/cache/model.rs) and its memory monitor (src/src/memory.rs).     *)
(*                                                                         *)
(* Paths are sequences of component names, the scanned root being          *)
(* <<"root">>.  Times are whole seconds.  Sizes are counted in bytes       *)
(* (allocated blocks * 512).                                               *)
(***************************************************************************)
EXTENDS Integers, Sequences, FiniteSets, TLC

VARIABLES
    now,        \* the clock: seconds, but milliseconds in the monitor spec
    fs,         \* the file system below (and including) the scanned root
    disk,       \* the cache directory: the final cache file and its .tmp
    enabled,    \* CACHE_ENABLED
    hist,       \* the scans run so far, most recent last (arguments, file system seen, result)
    ops,        \* number of file system changes made so far
    hdr,        \* header spec: the header under test
    probe,      \* header, entry and path specs: the arguments and environment of the call
    verdict,    \* header, entry and path specs: what the call returned
    api,        \* store and monitor specs: the calls made and what each returned
    pc,         \* file spec: each thread's position
    lock,       \* file spec: the holder of FILE_LOCK (0: free)
    local,      \* file spec: each thread's local variables
    monitor,    \* monitor spec: the MemoryMonitor object
    rss,        \* monitor spec: what sysinfo now reads for the process
    ws          \* work-stealing spec: the state of scan_with_work_stealing

vars == <<now, fs, disk, enabled, hist, ops, hdr, probe, verdict, api, pc, lock, local,
          monitor, rss, ws>>

---------------------------------------------------------------------------
(* Bounds of the model *)

MaxTime == 1        \* the clock runs from 0 to MaxTime
MaxOps == 1         \* file system changes per behaviour
MaxScans == 2       \* scans per behaviour
MaxCalls == 3       \* calls of the cache module's functions per behaviour
MaxFlagCalls == 5   \* the same, in the runs that switch the cache flag
NumThreads == 2     \* threads calling the cache module at once
MaxBlocks == 2      \* allocated blocks of a file
BulkFiles == 1000   \* files of the bulk entry of root/b
MaxMonitorCalls == 3 \* calls of the monitor's predicates per behaviour
MaxClock == 2       \* milliseconds the monitor's clock runs
MaxMtime == 2       \* mtimes is_valid is tried on
MaxNlink == 3       \* link counts is_valid is tried on

---------------------------------------------------------------------------
(* Option<T>: None is the empty sequence, Some(v) the one-element sequence *)

None == <<>>
Some(v) == <<v>>
IsSome(o) == Len(o) = 1
Unwrap(o) == o[1]

Min(a, b) == IF a < b THEN a ELSE b
Max(a, b) == IF a < b THEN b ELSE a

\* A subtraction that returns the distance instead of saturating at 0
SatSub_Distance(a, b) == IF a >= b THEN a - b ELSE b - a

\* u64::saturating_sub
SatSub(a, b) == IF a >= b THEN a - b ELSE 0

---------------------------------------------------------------------------
(* Paths *)

Root == <<"root">>

\* Path::parent
Parent(p) == SubSeq(p, 1, Len(p) - 1)

\* Path::starts_with: component-wise prefix
StartsWith(p, q) == Len(q) <= Len(p) /\ SubSeq(p, 1, Len(q)) = q

\* utils::path_depth: components between root and path, 0 when path is not under root
path_depth(root, path) ==
    IF StartsWith(path, root) THEN Len(path) - Len(root) ELSE 0

\* A fixed numbering of the component names of the model; it orders paths as
\* Path::cmp does (component by component) and seeds the path hash.
NameCode(s) ==
    CASE s = "root" -> 1
      [] s = "a" -> 2
      [] s = "b" -> 3
      [] s = "c" -> 4
      [] s = "d" -> 5
      [] s = "f1" -> 6
      [] s = "f2" -> 7
      [] s = "f3" -> 8
      [] s = "f4" -> 9
      [] s = "f5" -> 10
      [] s = "many" -> 11
      [] s = "f0" -> 12
      [] OTHER -> 13

RECURSIVE HashFrom(_, _, _)
HashFrom(h, p, i) ==
    IF i > Len(p) THEN h
    ELSE HashFrom(h * 31 + NameCode(p[i]), p, i + 1)

\* utils::path_hash / model::calculate_path_hash: a deterministic digest of
\* the path's components (DefaultHasher fed the components in order).  The
\* paths of the model are at most four components long, which keeps the
\* digest far inside the machine word, so no reduction is applied.
path_hash(p) == HashFrom(17, p, 1)

\* Path::cmp, as "p sorts strictly before q"
RECURSIVE PathLess(_, _)
PathLess(p, q) ==
    IF Len(q) = 0 THEN FALSE
    ELSE IF Len(p) = 0 THEN TRUE
    ELSE IF NameCode(Head(p)) # NameCode(Head(q)) THEN NameCode(Head(p)) < NameCode(Head(q))
    ELSE PathLess(Tail(p), Tail(q))

---------------------------------------------------------------------------
(* Cache data model: src/src/cache/model.rs *)

\* env!("CARGO_PKG_VERSION"); the value is the build's, any string serves
CARGO_PKG_VERSION == "1.4.0"

\* CacheHeader
CacheHeader(root_path, creation_time, version, root_mtime) ==
    [root_path |-> root_path, creation_time |-> creation_time,
     rudu_version |-> version, root_mtime |-> root_mtime]

\* CacheHeader::new_with_mtime
new_with_mtime(root_path, root_mtime, time) ==
    CacheHeader(root_path, time, CARGO_PKG_VERSION, root_mtime)

\* CacheEntry::new
CacheEntry(path_hash_, path, size, mtime, nlink, inode_cnt, owner, entry_type) ==
    [path_hash |-> path_hash_, path |-> path, size |-> size, mtime |-> mtime,
     nlink |-> nlink, inode_cnt |-> inode_cnt, owner |-> owner,
     entry_type |-> entry_type]

\* is_valid comparing the mtime alone
is_valid_MtimeOnly(e, current_mtime, current_nlink) == e.mtime = current_mtime

\* CacheEntry::is_valid
is_valid(e, current_mtime, current_nlink) ==
    e.mtime = current_mtime /\ e.nlink = current_nlink

\* should_invalidate with the TTL compared by > instead of >=
should_invalidate_StrictTtl(h, root_path, ttl_seconds, current_time, current_root_mtime) ==
    IF h.rudu_version # CARGO_PKG_VERSION THEN TRUE
    ELSE IF SatSub(current_time, h.creation_time) > ttl_seconds THEN TRUE
    ELSE IF h.root_path # root_path THEN TRUE
    ELSE IF IsSome(current_root_mtime)
         THEN IF IsSome(h.root_mtime)
              THEN Unwrap(current_root_mtime) # Unwrap(h.root_mtime)
              ELSE TRUE
         ELSE FALSE

\* CacheHeader::should_invalidate.  current_time is SystemTime::now() and
\* current_root_mtime is get_root_mtime(root_path), both read by the call.
should_invalidate(h, root_path, ttl_seconds, current_time, current_root_mtime) ==
    IF h.rudu_version # CARGO_PKG_VERSION THEN TRUE
    ELSE IF SatSub(current_time, h.creation_time) >= ttl_seconds THEN TRUE
    ELSE IF h.root_path # root_path THEN TRUE
    ELSE IF IsSome(current_root_mtime)
         THEN IF IsSome(h.root_mtime)
              THEN Unwrap(current_root_mtime) # Unwrap(h.root_mtime)
              ELSE TRUE
         ELSE FALSE


---------------------------------------------------------------------------
(* The cache file: src/src/cache/mod.rs *)

\* What a file holds.  fmt names what was serialized into it ("cache": a
\* Cache, "legacy": a bare map path -> CacheEntry, "garbage": bytes that are
\* neither), len how many of its serialized units are present (a truncated
\* or half-written file holds fewer than the value needs), header and
\* entries the value itself.  "none": no such file.
NoHeader == CacheHeader(<<>>, 0, "", None)
NoFile == [fmt |-> "none", len |-> 0, header |-> NoHeader, entries |-> <<>>]

\* Units bincode writes for a Cache: four header fields, the map length,
\* and per entry its key and eight fields
EntriesLen(entries) == 1 + 9 * Cardinality(DOMAIN entries)
CacheLen(cache) == 4 + EntriesLen(cache.entries)

\* bincode::serialize(cache)
serialize(cache) ==
    [fmt |-> "cache", len |-> CacheLen(cache), header |-> cache.header,
     entries |-> cache.entries]

\* The bytes of a bare map path -> CacheEntry (the legacy format)
serialize_legacy(map) ==
    [fmt |-> "legacy", len |-> EntriesLen(map), header |-> NoHeader, entries |-> map]

\* deserialize_cache that takes a Cache cut short for a whole one
deserialize_cache_NoLengthCheck(bytes) ==
    IF bytes.fmt = "cache" /\ bytes.len > 0
    THEN [ok |-> TRUE, header |-> bytes.header, entries |-> bytes.entries]
    ELSE [ok |-> FALSE, header |-> NoHeader, entries |-> <<>>]

\* bincode::deserialize::<model::Cache>: fails on bytes that are not a
\* Cache or that end before the value is complete
deserialize_cache(bytes) ==
    IF bytes.fmt = "cache" /\ bytes.len >= CacheLen(bytes)
    THEN [ok |-> TRUE, header |-> bytes.header, entries |-> bytes.entries]
    ELSE [ok |-> FALSE, header |-> NoHeader, entries |-> <<>>]

\* bincode::deserialize::<HashMap<PathBuf, CacheEntry>>
deserialize_legacy(bytes) ==
    IF bytes.fmt = "legacy" /\ bytes.len >= EntriesLen(bytes.entries)
    THEN [ok |-> TRUE, header |-> NoHeader, entries |-> bytes.entries]
    ELSE [ok |-> FALSE, header |-> NoHeader, entries |-> <<>>]

\* The directory holding the cache files (XDG_CACHE_HOME/rudu)
CacheDir == <<"cachedir", "rudu">>

\* Rekey that trusts each entry's own path_hash field for the key
Rekey_ByEntryHash(map) ==
    LET keys == {map[p].path_hash : p \in DOMAIN map}
    IN [h \in keys |->
          LET p == CHOOSE q \in DOMAIN map : map[q].path_hash = h
          IN [map[p] EXCEPT !.path = p]]

\* The hash-keyed map save and the legacy conversion build from a
\* path-keyed one: each entry stored under path_hash(key) with its path
\* field set to the key.  Two keys with one hash leave one entry.
Rekey(map) ==
    LET keys == {path_hash(p) : p \in DOMAIN map}
    IN [h \in keys |->
          LET p == CHOOSE q \in DOMAIN map : path_hash(q) = h
          IN [map[p] EXCEPT !.path = p]]

\* load_cache: the hash-keyed entries back to a map keyed by each entry's
\* own path field
ByPath(entries) ==
    LET paths == {entries[h].path : h \in DOMAIN entries}
    IN [p \in paths |->
          LET h == CHOOSE k \in DOMAIN entries : entries[k].path = p
          IN entries[h]]

\* load_cache_from_file, as a whole: Ok(cache) or Err
load_cache_from_file(d, time) ==
    LET bytes == d.bin
        asCache == deserialize_cache(bytes)
        asLegacy == deserialize_legacy(bytes)
    IN IF bytes.fmt = "none" \/ bytes.len = 0
       THEN [ok |-> FALSE, header |-> NoHeader, entries |-> <<>>]
       ELSE IF asCache.ok THEN asCache
       ELSE IF asLegacy.ok
            THEN [ok |-> TRUE,
                  header |-> CacheHeader(CacheDir, time, CARGO_PKG_VERSION, Some(d.dir_mtime)),
                  entries |-> Rekey(asLegacy.entries)]
            ELSE [ok |-> FALSE, header |-> NoHeader, entries |-> <<>>]


\* save_cache_to_file, as a whole.  outcome is how the operating system
\* answers: "ok", "write_fails" (the temporary file can be written neither
\* through the mapping nor through the fallback: it is left created and
\* incomplete) or "rename_fails" (the temporary file is complete, the final
\* path untouched).
save_cache_to_file(d, cache, time, outcome) ==
    LET bytes == serialize(cache)
    IN CASE outcome = "ok" ->
              [ok |-> TRUE,
               disk |-> [bin |-> bytes, tmp |-> NoFile, dir_mtime |-> time]]
         [] outcome = "write_fails" ->
              [ok |-> FALSE,
               disk |-> [d EXCEPT !.tmp = [bytes EXCEPT !.len = 0], !.dir_mtime = time]]
         [] OTHER ->
              [ok |-> FALSE,
               disk |-> [d EXCEPT !.tmp = bytes, !.dir_mtime = time]]

\* save_cache_with_mtime without the is_enabled() check
save_cache_with_mtime_NoFlag(d, en, path_ok, time, root, cache, root_mtime, outcome) ==
    IF ~path_ok THEN [ok |-> FALSE, disk |-> d]
    ELSE save_cache_to_file(d, [header |-> new_with_mtime(root, root_mtime, time),
                                entries |-> Rekey(cache)], time, outcome)

\* save_cache_with_mtime.  path_ok: whether get_cache_path_without_write_test
\* resolves (HOME or XDG_CACHE_HOME set, directory creatable).
save_cache_with_mtime(d, en, path_ok, time, root, cache, root_mtime, outcome) ==
    IF ~en THEN [ok |-> TRUE, disk |-> d]
    ELSE IF ~path_ok THEN [ok |-> FALSE, disk |-> d]
    ELSE save_cache_to_file(d, [header |-> new_with_mtime(root, root_mtime, time),
                                entries |-> Rekey(cache)], time, outcome)

\* load_cache: the map it returns and the cache directory it leaves
load_cache(d, en, path_ok, f_root_mtime, time, root, ttl_seconds) ==
    IF ~en THEN [map |-> <<>>, disk |-> d]
    ELSE IF ~path_ok THEN [map |-> <<>>, disk |-> d]
    ELSE IF d.bin.fmt = "none" THEN [map |-> <<>>, disk |-> d]
    ELSE LET r == load_cache_from_file(d, time)
         IN IF r.ok
            THEN IF should_invalidate(r.header, root, ttl_seconds, time, f_root_mtime)
                 THEN [map |-> <<>>,
                       disk |-> [d EXCEPT !.bin = NoFile, !.dir_mtime = time]]
                 ELSE [map |-> ByPath(r.entries), disk |-> d]
            ELSE [map |-> <<>>, disk |-> d]

\* invalidate_cache: Ok(true) when a file was removed, Ok(false) when none
\* existed, Err when the path does not resolve
invalidate_cache(d, path_ok, time) ==
    IF ~path_ok THEN [ok |-> FALSE, removed |-> FALSE, disk |-> d]
    ELSE IF d.bin.fmt # "none"
         THEN [ok |-> TRUE, removed |-> TRUE,
               disk |-> [d EXCEPT !.bin = NoFile, !.dir_mtime = time]]
         ELSE [ok |-> TRUE, removed |-> FALSE, disk |-> d]

---------------------------------------------------------------------------
(* The file system under the scanned root *)

\* The paths that may exist, in the order the walk meets them (each
\* directory before its content).  BulkPath stands for BulkFiles plain files
\* of one directory, all of the same allocated size, created together.
DirA == <<"root", "a">>
DirB == <<"root", "b">>
DirC == <<"root", "c">>
DirD == <<"root", "a", "d">>
F1 == <<"root", "a", "f1">>
F2 == <<"root", "a", "f2">>
F3 == <<"root", "b", "f3">>
F4 == <<"root", "a", "d", "f4">>
F5 == <<"root", "c", "f5">>
F0 == <<"root", "f0">>
BulkPath == <<"root", "b", "many">>
WalkOrder == << Root, DirA, DirD, F4, F1, F2, DirB, F3, BulkPath, DirC, F5, F0 >>
Universe == {WalkOrder[i] : i \in 1..Len(WalkOrder)}
DirPaths == {Root, DirA, DirB, DirC, DirD}
FilePaths == Universe \ DirPaths

Absent == [ex |-> FALSE, blocks |-> 0, mtime |-> 0, nlink |-> 0, count |-> 0]
NewDir(t) == [ex |-> TRUE, blocks |-> 0, mtime |-> t, nlink |-> 2, count |-> 1]
NewFile(b, n) == [ex |-> TRUE, blocks |-> b, mtime |-> 0, nlink |-> 1, count |-> n]

\* root/{a/{f1,f2}, b/{f3}}, created at time 0
SmallTree ==
    [p \in Universe |->
        IF p = Root THEN [NewDir(0) EXCEPT !.nlink = 4]
        ELSE IF p \in {DirA, DirB} THEN NewDir(0)
        ELSE IF p \in {F1, F2, F3} THEN NewFile(1, 1)
        ELSE Absent]

\* A root with nothing in it, created at time 0
EmptyTree == [p \in Universe |-> IF p = Root THEN NewDir(0) ELSE Absent]

\* The trees a behaviour may start from: the small tree, the small tree
\* with BulkFiles more files in root/b, the small tree with root/a/d/f4,
\* the empty root
InitialTrees ==
    { SmallTree,
      [SmallTree EXCEPT ![BulkPath] = NewFile(1, BulkFiles)],
      [SmallTree EXCEPT ![DirD] = NewDir(0), ![F4] = NewFile(1, 1), ![DirA].nlink = 3],
      EmptyTree }

\* The existing children of directory d, in walk order
ChildrenOf(f, d) ==
    LET IsChild(p) == f[p].ex /\ Parent(p) = d
    IN SelectSeq(WalkOrder, IsChild)

\* utils::disk_usage: st_blocks * 512, 0 when the path cannot be read
disk_usage(f, p) == IF p \in Universe /\ f[p].ex THEN f[p].blocks * 512 ELSE 0

\* utils::get_dir_metadata: None when stat fails
get_dir_metadata(f, p) ==
    IF p \in Universe /\ f[p].ex
    THEN Some([mtime |-> f[p].mtime, nlink |-> f[p].nlink,
               size |-> f[p].blocks * 512, owner |-> Some(1000)])
    ELSE None

\* model::get_root_mtime
get_root_mtime(f, p) ==
    IF p \in Universe /\ f[p].ex THEN Some(f[p].mtime) ELSE None

\* save_cache: save_cache_with_mtime with the mtime root has in tree f now
save_cache(d, en, path_ok, time, root, cache, f, outcome) ==
    save_cache_with_mtime(d, en, path_ok, time, root, cache, get_root_mtime(f, root), outcome)

\* Changes made to the tree between scans: each stamps the directory it
\* changes with the current second, as the kernel does.
Touch(f, d, t) == [f EXCEPT ![d].mtime = t]

AppendFile(p) ==
    /\ ops < MaxOps /\ p \in FilePaths /\ p # BulkPath
    /\ fs[p].ex /\ fs[p].blocks < MaxBlocks
    /\ fs' = [fs EXCEPT ![p].blocks = @ + 1, ![p].mtime = now]
    /\ ops' = ops + 1
    /\ UNCHANGED <<now, disk, enabled, hist, hdr, probe, verdict, api, pc, lock, local, monitor, rss, ws>>

CreateFile(p) ==
    /\ ops < MaxOps /\ p \in FilePaths /\ p # BulkPath
    /\ ~fs[p].ex /\ fs[Parent(p)].ex
    /\ fs' = Touch([fs EXCEPT ![p] = [NewFile(1, 1) EXCEPT !.mtime = now]], Parent(p), now)
    /\ ops' = ops + 1
    /\ UNCHANGED <<now, disk, enabled, hist, hdr, probe, verdict, api, pc, lock, local, monitor, rss, ws>>

RemoveFile(p) ==
    /\ ops < MaxOps /\ p \in FilePaths /\ p # BulkPath
    /\ fs[p].ex
    /\ fs' = Touch([fs EXCEPT ![p] = Absent], Parent(p), now)
    /\ ops' = ops + 1
    /\ UNCHANGED <<now, disk, enabled, hist, hdr, probe, verdict, api, pc, lock, local, monitor, rss, ws>>

MkDir(p) ==
    /\ ops < MaxOps /\ p \in DirPaths \ {Root}
    /\ ~fs[p].ex /\ fs[Parent(p)].ex
    /\ fs' = [fs EXCEPT ![p] = NewDir(now),
                        ![Parent(p)].mtime = now,
                        ![Parent(p)].nlink = @ + 1]
    /\ ops' = ops + 1
    /\ UNCHANGED <<now, disk, enabled, hist, hdr, probe, verdict, api, pc, lock, local, monitor, rss, ws>>

Tick ==
    /\ now < MaxTime
    /\ now' = now + 1
    /\ UNCHANGED <<fs, disk, enabled, hist, ops, hdr, probe, verdict, api, pc, lock, local, monitor, rss, ws>>

---------------------------------------------------------------------------
(* The scanner: scan_files_and_dirs_with_monitor, src/src/scan.rs *)

\* Maps (HashMap, DashMap) are functions; the empty map is <<>>.
Insert(m, k, v) == [x \in (DOMAIN m) \cup {k} |-> IF x = k THEN v ELSE m[x]]
Get(m, k, default) == IF k \in DOMAIN m THEN m[k] ELSE default

\* utils::expand_exclude_patterns for plain names (no '*', no '.', no
\* trailing '/'): each becomes the globs **/name and **/name/**
expand_exclude_patterns(exclude) ==
    {[glob |-> "**/name", name |-> x] : x \in exclude}
        \cup {[glob |-> "**/name/**", name |-> x] : x \in exclude}

\* GlobSet::is_match: **/name matches a path whose last component is name,
\* **/name/** one with the component name before its last
is_match(globs, path) ==
    \E g \in globs :
        \/ g.glob = "**/name" /\ Len(path) > 0 /\ path[Len(path)] = g.name
        \/ g.glob = "**/name/**" /\ \E i \in 1..(Len(path) - 1) : path[i] = g.name

\* path.components().any(|c| args.exclude.iter().any(|x| c == x))
component_excluded(exclude, path) ==
    \E i \in 1..Len(path) : path[i] \in exclude

\* memory_check_interval, from args.memory_check_interval_ms
memory_check_interval(ms) ==
    IF ms <= 100 THEN 500 ELSE IF ms <= 200 THEN 1000 ELSE 2000

\* What the monitor answers at its n-th consultation: "exceeds"
\* (exceeds_limit() is true), "nearing" (it is false and nearing_limit() is
\* true) or "normal".  A monitor whose limit is at or below the process
\* RSS all through the scan (below_rss) answers "exceeds" whenever asked.
MonitorAnswer(mon, n) ==
    IF mon.below_rss THEN "exceeds"
    ELSE IF n <= Len(mon.answers) THEN mon.answers[n] ELSE "normal"

\* The state of the walk: the locals of scan_files_and_dirs_with_monitor
\* that the filter closure and the collecting loop update.
WalkStart ==
    [walker_entries |-> <<>>, entry_counter |-> 0, checks |-> 0,
     memory_exceeded |-> FALSE, memory_nearing_limit |-> FALSE,
     set_enabled_calls |-> 0,
     cache_hits |-> 0, cache_misses |-> 0,
     dir_totals |-> <<>>, directory_children |-> <<>>,
     cached_dirs |-> <<>>, new_cache_entries |-> <<>>]

\* Restored without the exclusion filters
Restored_NoExclusion(c, path) ==
    {q \in DOMAIN c.cache :
        /\ StartsWith(q, path) /\ q # path
        /\ (IsSome(c.args.depth) => path_depth(Root, q) <= Unwrap(c.args.depth))}

\* Restored without the depth limit
Restored_AnyDepth(c, path) ==
    {q \in DOMAIN c.cache :
        /\ StartsWith(q, path) /\ q # path
        /\ ~is_match(c.globs, q)
        /\ ~component_excluded(c.args.exclude, q)}

\* The cached entries strictly under path that the hit branch restores:
\* within the depth limit and excluded by neither filter of this scan
Restored(c, path) ==
    {q \in DOMAIN c.cache :
        /\ StartsWith(q, path) /\ q # path
        /\ (IsSome(c.args.depth) => path_depth(Root, q) <= Unwrap(c.args.depth))
        /\ ~is_match(c.globs, q)
        /\ ~component_excluded(c.args.exclude, q)}

\* The cache-hit branch of the filter closure for directory path
CacheHit(w, c, path) ==
    LET sub == Restored(c, path)
        all == sub \cup {path}
        withInodes == {q \in all : IsSome(c.cache[q].inode_cnt)}
    IN [w EXCEPT
          !.cache_hits = @ + 1,
          !.dir_totals = [x \in (DOMAIN @) \cup all |->
                            IF x \in all THEN c.cache[x].size ELSE @[x]],
          !.directory_children = [x \in (DOMAIN @) \cup withInodes |->
                            IF x \in withInodes THEN Unwrap(c.cache[x].inode_cnt) ELSE @[x]],
          !.cached_dirs = [x \in (DOMAIN @) \cup all |->
                            IF x \in all THEN c.cache[x] ELSE @[x]],
          !.new_cache_entries = [x \in (DOMAIN @) \cup all |->
                            IF x \in all THEN c.cache[x] ELSE @[x]]]

\* Whether the filter closure finds a valid cached entry for directory path
IsCacheHit(c, path) ==
    /\ path \in DOMAIN c.cache
    /\ IsSome(get_dir_metadata(c.fs, path))
    /\ LET m == Unwrap(get_dir_metadata(c.fs, path))
       IN is_valid(c.cache[path], m.mtime, m.nlink)

\* The collecting loop, for the `left` entries that path stands for (one,
\* or the files of BulkPath): each raises entry_counter, every
\* memory_check_interval-th consults the monitor, and an entry is pushed
\* unless the monitor answered "exceeds" at it, which ends the loop.  taken
\* counts the entries pushed so far.  The first "nearing" answer sets
\* memory_nearing_limit and calls cache::set_enabled(false); later ones
\* find the flag set and do neither.
RECURSIVE Collect(_, _, _, _, _)
Collect(w, c, path, left, taken) ==
    LET K == memory_check_interval(c.args.memory_check_interval_ms)
        toCheck == K - (w.entry_counter % K)
        job == [path |-> path, is_file |-> path \in FilePaths,
                size |-> IF path \in FilePaths THEN disk_usage(c.fs, path) ELSE 0,
                count |-> taken]
        push(ww, n) == IF n = 0 THEN ww
                       ELSE [ww EXCEPT !.walker_entries = Append(@, [job EXCEPT !.count = n])]
    IN IF left = 0 THEN push(w, taken)
       ELSE IF ~c.mon.present \/ toCheck > left
       THEN push([w EXCEPT !.entry_counter = @ + left], taken + left)
       ELSE LET answer == MonitorAnswer(c.mon, w.checks + 1)
                w1 == [w EXCEPT !.entry_counter = @ + toCheck, !.checks = @ + 1]
            IN IF answer = "exceeds"
               THEN push([w1 EXCEPT !.memory_exceeded = TRUE], taken + toCheck - 1)
               ELSE IF ~w.memory_nearing_limit /\ answer = "nearing"
               THEN Collect([w1 EXCEPT !.memory_nearing_limit = TRUE,
                                       !.set_enabled_calls = @ + 1],
                            c, path, left - toCheck, taken + toCheck)
               ELSE Collect(w1, c, path, left - toCheck, taken + toCheck)

\* The walk below and including path, in WalkDir's order: the filter
\* closure decides whether the entry is dropped, served from the cache
\* (and not descended into) or yielded to the collecting loop; nothing
\* after the loop's break is looked at.
RECURSIVE Visit(_, _, _), VisitAll(_, _, _)
\* Visit without the loop's break: the walk goes on after the monitor
\* answered "exceeds"
Visit_NoBreak(w, c, path) ==
    IF is_match(c.globs, path) THEN w
    ELSE IF component_excluded(c.args.exclude, path) THEN w
    ELSE IF path \in DirPaths /\ ~c.args.no_cache /\ IsCacheHit(c, path)
    THEN CacheHit(w, c, path)
    ELSE LET w1 == IF path \in DirPaths /\ ~c.args.no_cache
                   THEN [w EXCEPT !.cache_misses = @ + 1] ELSE w
             w2 == Collect(w1, c, path, c.fs[path].count, 0)
         IN IF path \in DirPaths THEN VisitAll(w2, c, ChildrenOf(c.fs, path)) ELSE w2

\* Visit that goes on into a directory served from the cache
Visit_DescendOnHit(w, c, path) ==
    IF w.memory_exceeded THEN w
    ELSE IF is_match(c.globs, path) THEN w
    ELSE IF component_excluded(c.args.exclude, path) THEN w
    ELSE IF path \in DirPaths /\ ~c.args.no_cache /\ IsCacheHit(c, path)
    THEN VisitAll(CacheHit(w, c, path), c, ChildrenOf(c.fs, path))
    ELSE LET w1 == IF path \in DirPaths /\ ~c.args.no_cache
                   THEN [w EXCEPT !.cache_misses = @ + 1] ELSE w
             w2 == Collect(w1, c, path, c.fs[path].count, 0)
         IN IF path \in DirPaths THEN VisitAll(w2, c, ChildrenOf(c.fs, path)) ELSE w2

Visit(w, c, path) ==
    IF w.memory_exceeded THEN w
    ELSE IF is_match(c.globs, path) THEN w
    ELSE IF component_excluded(c.args.exclude, path) THEN w
    ELSE IF path \in DirPaths /\ ~c.args.no_cache /\ IsCacheHit(c, path)
    THEN CacheHit(w, c, path)
    ELSE LET w1 == IF path \in DirPaths /\ ~c.args.no_cache
                   THEN [w EXCEPT !.cache_misses = @ + 1] ELSE w
             w2 == Collect(w1, c, path, c.fs[path].count, 0)
         IN IF path \in DirPaths THEN VisitAll(w2, c, ChildrenOf(c.fs, path)) ELSE w2

VisitAll(w, c, paths) ==
    IF paths = <<>> THEN w
    ELSE VisitAll(Visit(w, c, Head(paths)), c, Tail(paths))

\* parent_paths of a file job: its ancestors up to and including root
RECURSIVE parent_paths(_, _)
parent_paths(path, root) ==
    IF Len(path) <= 1 THEN <<>>
    ELSE IF Parent(path) = root THEN <<root>>
    ELSE <<Parent(path)>> \o parent_paths(Parent(path), root)

\* dir_totals.entry(parent).and_modify(|v| *v += size).or_insert(size) for
\* every parent of one job
RECURSIVE AddToParents(_, _, _)
AddToParents(totals, parents, size) ==
    IF parents = <<>> THEN totals
    ELSE AddToParents(Insert(totals, Head(parents), Get(totals, Head(parents), 0) + size),
                      Tail(parents), size)

\* "Accumulate directory sizes from file scan jobs"
RECURSIVE AccumulateSizes(_, _)
AccumulateSizes(totals, jobs) ==
    IF jobs = <<>> THEN totals
    ELSE LET j == Head(jobs)
         IN AccumulateSizes(
              IF j.is_file
              THEN AddToParents(totals, parent_paths(j.path, Root), j.size * j.count)
              ELSE totals,
              Tail(jobs))

\* "Count children for inode tracking"
RECURSIVE CountChildren(_, _)
CountChildren(children, jobs) ==
    IF jobs = <<>> THEN children
    ELSE LET j == Head(jobs)
             par == Parent(j.path)
         IN CountChildren(Insert(children, par, Get(children, par, 0) + j.count), Tail(jobs))

\* FileEntry (owner left out: show_owner is not modelled).  count is 1 but
\* for the entry standing for the files of BulkPath.
FileEntry(path, size, inodes, entry_type, count) ==
    [path |-> path, size |-> size, inodes |-> inodes, entry_type |-> entry_type,
     count |-> count]

\* The FileEntry composed for one scan job
ComposeEntry(j, args, totals, children) ==
    IF j.is_file
    THEN FileEntry(j.path, j.size, None, "File", j.count)
    ELSE FileEntry(j.path, Get(totals, j.path, 0),
                   IF args.show_inodes THEN Some(Get(children, j.path, 0)) ELSE None,
                   "Dir", j.count)

\* The CacheEntry composed for one directory job (None when stat fails)
ComposeCacheEntry(j, f, args, totals, children) ==
    LET meta == get_dir_metadata(f, j.path)
    IN IF IsSome(meta)
       THEN Some(CacheEntry(path_hash(j.path), j.path, Get(totals, j.path, 0),
                            Unwrap(meta).mtime, Unwrap(meta).nlink,
                            IF args.show_inodes THEN Some(Get(children, j.path, 0)) ELSE None,
                            Unwrap(meta).owner, "Dir"))
       ELSE None

\* utils::sort_entries: a stable sort, by descending size or ascending path
SortsBefore(a, b, sort_key) ==
    IF sort_key = "size" THEN a.size > b.size ELSE PathLess(a.path, b.path)

RECURSIVE InsertSorted(_, _, _)
InsertSorted(sorted, e, sort_key) ==
    IF sorted = <<>> THEN <<e>>
    ELSE IF SortsBefore(e, Head(sorted), sort_key) THEN <<e>> \o sorted
    ELSE <<Head(sorted)>> \o InsertSorted(Tail(sorted), e, sort_key)

\* sort_entries that leaves the entries as they came
sort_entries_AsComposed(entries, sort_key) == entries

RECURSIVE sort_entries(_, _)
sort_entries(entries, sort_key) ==
    IF entries = <<>> THEN <<>>
    ELSE InsertSorted(sort_entries(SubSeq(entries, 1, Len(entries) - 1), sort_key),
                      entries[Len(entries)], sort_key)

\* A set of paths as a sequence in ascending path order
RECURSIVE PathSeq(_)
PathSeq(S) ==
    IF S = {} THEN <<>>
    ELSE LET m == CHOOSE x \in S : \A y \in S \ {x} : PathLess(x, y)
         IN <<m>> \o PathSeq(S \ {m})

\* Args.  BaseArgs are the arguments most scans of the model run with: the
\* command line's defaults (caching on, no depth limit, nothing excluded,
\* sorted by name, a TTL of 7 days) but with inode counts shown and a
\* 100 ms memory-check interval, which consults the monitor every 500
\* entries.
BaseArgs ==
    [no_cache |-> FALSE, depth |-> None, exclude |-> {}, show_inodes |-> TRUE,
     sort |-> "name", cache_ttl |-> 604800, memory_check_interval_ms |-> 100]

\* The argument sets the model scans with
ScanArgs ==
    { BaseArgs,
      [BaseArgs EXCEPT !.no_cache = TRUE],
      [BaseArgs EXCEPT !.depth = Some(1)],
      [BaseArgs EXCEPT !.sort = "size"],
      [BaseArgs EXCEPT !.cache_ttl = 1],
      [BaseArgs EXCEPT !.exclude = {"a"}],
      [BaseArgs EXCEPT !.show_inodes = FALSE] }

\* A memory monitor is modelled by its answers at the consultations of one
\* scan: "exceeds" (exceeds_limit() is true), "nearing" (it is false and
\* nearing_limit() is true) or "normal".
MonitorAnswers == {"normal", "nearing", "exceeds"}
NoMonitor == [present |-> FALSE, answers |-> <<>>, below_rss |-> FALSE]
\* The monitor whose limit the process RSS is never below
LowLimitMonitor == [present |-> TRUE, answers |-> <<>>, below_rss |-> TRUE]
Monitors ==
    {[present |-> TRUE, answers |-> a, below_rss |-> FALSE] :
        a \in {<<>>} \cup {<<x>> : x \in MonitorAnswers}
               \cup {<<x, y>> : x \in MonitorAnswers \ {"exceeds"}, y \in MonitorAnswers}}
        \cup {LowLimitMonitor}

\* The inputs of the scans of the model: every argument set without a
\* monitor, the default arguments with every monitor, and the default
\* arguments with a cache save that fails
SaveOutcomes == {"ok", "write_fails", "rename_fails"}
ScanInputs ==
    {[args |-> a, mon |-> NoMonitor, save_outcome |-> "ok"] : a \in ScanArgs}
        \cup {[args |-> BaseArgs, mon |-> m, save_outcome |-> "ok"] : m \in Monitors}
        \cup {[args |-> BaseArgs, mon |-> NoMonitor, save_outcome |-> "write_fails"]}

\* scan_files_and_dirs_with_monitor, phase by phase.  Each phase is an
\* operator over what the phases before it produced.

\* "Load cache if caching is enabled": the map and the cache directory
LoadPhase(f, d, en, t, args) ==
    IF args.no_cache THEN [map |-> <<>>, disk |-> d]
    ELSE load_cache(d, en, TRUE, get_root_mtime(f, Root), t, Root, args.cache_ttl)

\* The WalkDir iteration with its filter closure and the collecting loop
WalkPhase(f, args, mon, cache) ==
    Visit(WalkStart,
          [fs |-> f, cache |-> cache, args |-> args,
           globs |-> expand_exclude_patterns(args.exclude), mon |-> mon],
          Root)

\* AggregatePhase that counts children whatever memory_nearing_limit says
AggregatePhase_CountAlways(args, w) ==
    [dir_totals |-> AccumulateSizes(w.dir_totals, w.walker_entries),
     directory_children |->
        IF args.show_inodes
        THEN CountChildren(w.directory_children, w.walker_entries)
        ELSE w.directory_children]

\* Size accumulation and child counting over the collected jobs
AggregatePhase(args, w) ==
    [dir_totals |-> AccumulateSizes(w.dir_totals, w.walker_entries),
     directory_children |->
        IF args.show_inodes /\ ~w.memory_nearing_limit
        THEN CountChildren(w.directory_children, w.walker_entries)
        ELSE w.directory_children]

\* The entries composed from the jobs, the cache entries created for the
\* directory jobs, and the entries of the directories served from the cache
ComposePhase(f, args, w, agg) ==
    LET scan_jobs == w.walker_entries
        made == [i \in 1..Len(scan_jobs) |->
                    IF scan_jobs[i].is_file THEN None
                    ELSE ComposeCacheEntry(scan_jobs[i], f, args, agg.dir_totals,
                                           agg.directory_children)]
        scannedPaths == {scan_jobs[i].path : i \in {k \in DOMAIN made : IsSome(made[k])}}
        cachedPaths == PathSeq(DOMAIN w.cached_dirs)
    IN [file_entries |->
            [i \in 1..Len(scan_jobs) |->
                ComposeEntry(scan_jobs[i], args, agg.dir_totals, agg.directory_children)],
        new_cache_entries |->
            [q \in (DOMAIN w.new_cache_entries) \cup scannedPaths |->
                IF q \in scannedPaths
                THEN Unwrap(made[CHOOSE k \in DOMAIN made : scan_jobs[k].path = q])
                ELSE w.new_cache_entries[q]],
        cached_entries |->
            [i \in 1..Len(cachedPaths) |->
                FileEntry(cachedPaths[i], w.cached_dirs[cachedPaths[i]].size,
                          w.cached_dirs[cachedPaths[i]].inode_cnt,
                          w.cached_dirs[cachedPaths[i]].entry_type, 1)]]

\* The cache flag put back to what it was when the scan returns
EnabledAfterWalk_Restored(en, w) == en

\* "Disable caching if memory usage is high", as the collecting loop does
\* at the consultation that finds memory nearing the limit
EnabledAfterWalk(en, w) == en /\ w.set_enabled_calls = 0

\* WillSave that does not look at no_cache
WillSave_IgnoreNoCache(args, w) == ~w.memory_nearing_limit

\* "Save cache if caching is enabled and not disabled due to memory
\* constraints"
WillSave(args, w) == ~args.no_cache /\ ~w.memory_nearing_limit

SavePhase(f, d, en, t, args, w, composed, save_outcome) ==
    IF WillSave(args, w)
    THEN save_cache_with_mtime(d, EnabledAfterWalk(en, w), TRUE, t, Root,
                               composed.new_cache_entries, get_root_mtime(f, Root),
                               save_outcome)
    ELSE [ok |-> TRUE, disk |-> d]

\* "Determine memory status"
MemoryStatus(w) ==
    IF w.memory_exceeded THEN "MemoryLimitHit"
    ELSE IF w.memory_nearing_limit THEN "NearingLimit"
    ELSE "Normal"

\* A scan that hands the error of its cache save to its caller
ScanReturns_PropagateSave(saved) == saved.ok

\* Whether the scan returns Ok: the error of a failed save is printed
\* (`if let Err(e) = save_cache_with_mtime(..) { eprintln!(..) }`) and the
\* function goes on to `Ok(ScanResult { .. })`
ScanReturns(saved) == TRUE

\* The ScanResult, with what the run leaves behind and what it did on the
\* way
ScanResult(en, args, loaded, w, composed, saved) ==
    [entries |-> sort_entries(composed.file_entries \o composed.cached_entries, args.sort),
     cache_hits |-> w.cache_hits,
     cache_total |-> w.cache_hits + w.cache_misses,
     memory_limit_hit |-> w.memory_exceeded,
     memory_status |-> MemoryStatus(w),
     disk |-> saved.disk,
     disk_after_load |-> loaded.disk,
     enabled |-> EnabledAfterWalk(en, w),
     set_enabled_calls |-> w.set_enabled_calls,
     loaded |-> loaded.map,
     walked |-> {w.walker_entries[i].path : i \in 1..Len(w.walker_entries)},
     served |-> DOMAIN w.cached_dirs,
     checks |-> w.checks,
     pulled |-> w.entry_counter,
     saving |-> WillSave(args, w) /\ EnabledAfterWalk(en, w),
     save_ok |-> saved.ok,
     ok |-> ScanReturns(saved)]

AfterCompose(f, en, t, args, save_outcome, loaded, w, composed) ==
    ScanResult(en, args, loaded, w, composed,
               SavePhase(f, loaded.disk, en, t, args, w, composed, save_outcome))

AfterAggregate(f, en, t, args, save_outcome, loaded, w, agg) ==
    AfterCompose(f, en, t, args, save_outcome, loaded, w, ComposePhase(f, args, w, agg))

AfterWalk(f, en, t, args, save_outcome, loaded, w) ==
    AfterAggregate(f, en, t, args, save_outcome, loaded, w, AggregatePhase(args, w))

AfterLoad(f, en, t, args, mon, save_outcome, loaded) ==
    AfterWalk(f, en, t, args, save_outcome, loaded, WalkPhase(f, args, mon, loaded.map))

\* One run of scan_files_and_dirs_with_monitor on the tree f at time t
RunScan(f, d, en, t, args, mon, save_outcome) ==
    AfterLoad(f, en, t, args, mon, save_outcome, LoadPhase(f, d, en, t, args))

\* The most consultations a scan of tree f can make
ChecksPossible(f, args) ==
    (Cardinality({p \in Universe : f[p].ex /\ p # BulkPath}) + f[BulkPath].count)
        \div memory_check_interval(args.memory_check_interval_ms)

\* A scan whose run r the monitor's answers and the save outcome fit
ScanStep(args, mon, save_outcome, r) ==
    /\ (mon.present /\ ~mon.below_rss) => Len(mon.answers) = r.checks
    /\ ~r.saving => save_outcome = "ok"
    /\ disk' = r.disk
    /\ enabled' = r.enabled
    /\ hist' = Append(hist, [args |-> args, mon |-> mon, fs |-> fs, time |-> now,
                             disk_before |-> disk, enabled_before |-> enabled,
                             save_outcome |-> save_outcome, result |-> r])

Scan(args, mon, save_outcome) ==
    /\ Len(hist) < MaxScans
    /\ Len(mon.answers) <= ChecksPossible(fs, args)
    /\ ScanStep(args, mon, save_outcome,
                RunScan(fs, disk, enabled, now, args, mon, save_outcome))
    /\ UNCHANGED <<now, fs, ops, hdr, probe, verdict, api, pc, lock, local, monitor, rss, ws>>

EmptyDisk == [bin |-> NoFile, tmp |-> NoFile, dir_mtime |-> 0]

Init ==
    /\ now = 0
    /\ fs \in InitialTrees
    /\ disk = EmptyDisk
    /\ enabled = TRUE
    /\ hist = <<>>
    /\ ops = 0
    /\ hdr = NoHeader
    /\ probe = <<>>
    /\ verdict = FALSE
    /\ api = <<>>
    /\ pc = <<>>
    /\ lock = 0
    /\ local = <<>>
    /\ monitor = <<>>
    /\ rss = None
    /\ ws = <<>>

Next ==
    \/ Tick
    \/ \E p \in FilePaths : AppendFile(p)
    \/ \E p \in FilePaths : CreateFile(p)
    \/ \E p \in FilePaths : RemoveFile(p)
    \/ \E p \in DirPaths : MkDir(p)
    \/ \E i \in ScanInputs : Scan(i.args, i.mon, i.save_outcome)

Spec == Init /\ [][Next]_vars

\* The scanner started on a cache directory that already holds a cache
\* for Root, written through save_cache by a caller that stores entries of
\* kind file: one with a valid entry for root and an entry for the file
\* root/a/f1, one with an entry of kind file at root/b whose mtime and
\* link count are those root/b has now; or a cache that holds the
\* directory root/a alone
SeededMaps ==
    { (Root :> CacheEntry(path_hash(Root), Root, 1536, 0, 4, Some(2), Some(1000), "Dir"))
          @@ (F1 :> CacheEntry(path_hash(F1), F1, 512, 0, 1, None, Some(1000), "File")),
      (DirB :> CacheEntry(path_hash(DirB), DirB, 4096, 0, 2, None, Some(1000), "File")),
      (DirA :> CacheEntry(path_hash(DirA), DirA, 1024, 0, 2, Some(2), Some(1000), "Dir")) }

SeededDisks ==
    {[EmptyDisk EXCEPT !.bin = serialize([header |-> new_with_mtime(Root, Some(0), 0),
                                          entries |-> Rekey(m)])] : m \in SeededMaps}

InitSeeded ==
    /\ now = 0
    /\ fs \in {SmallTree, [SmallTree EXCEPT ![BulkPath] = NewFile(1, BulkFiles)]}
    /\ disk \in SeededDisks
    /\ enabled = TRUE
    /\ hist = <<>>
    /\ ops = 0
    /\ hdr = NoHeader
    /\ probe = <<>>
    /\ verdict = FALSE
    /\ api = <<>>
    /\ pc = <<>>
    /\ lock = 0
    /\ local = <<>>
    /\ monitor = <<>>
    /\ rss = None
    /\ ws = <<>>

SpecSeeded == InitSeeded /\ [][Next]_vars

---------------------------------------------------------------------------
(* Properties of the scanner, over the scans recorded in hist *)

RECURSIVE SumOver(_, _)
SumOver(S, val) ==
    IF S = {} THEN 0
    ELSE LET x == CHOOSE y \in S : TRUE
         IN val[x] + SumOver(S \ {x}, val)

\* The files of tree f in the subtree of directory d that a scan with
\* args does not exclude
FilesUnder(f, d, args) ==
    {p \in FilePaths :
        /\ f[p].ex /\ StartsWith(p, d)
        /\ ~is_match(expand_exclude_patterns(args.exclude), p)
        /\ ~component_excluded(args.exclude, p)}

\* Their allocated bytes
SubtreeBytes(f, d, args) ==
    SumOver(FilesUnder(f, d, args), [p \in FilePaths |-> f[p].blocks * 512 * f[p].count])

DirEntries(r) == {i \in DOMAIN r.entries : r.entries[i].entry_type = "Dir"}
FileEntries(r) == {i \in DOMAIN r.entries : r.entries[i].entry_type = "File"}

\* Every cached entry that scan record h loaded is accurate: its size is
\* the allocated bytes now in its directory's subtree
LoadedIsAccurate(h) ==
    \A q \in DOMAIN h.result.loaded :
        h.result.loaded[q].size = SubtreeBytes(h.fs, q, h.args)

\* C1: every directory emitted by a scan that the memory limit did not end
\* carries the allocated bytes of all non-excluded files now in its subtree,
\* whichever of its sub-directories were walked or served from the cache
\* (stated for the scans whose loaded cache entries are all accurate).
C1_DirSizeIsSubtreeSum ==
    \A i \in DOMAIN hist :
        LET h == hist[i]
        IN (~h.result.memory_limit_hit /\ LoadedIsAccurate(h)) =>
              \A k \in DirEntries(h.result) :
                  h.result.entries[k].size
                      = SubtreeBytes(h.fs, h.result.entries[k].path, h.args)

\* Scan i follows scan i-1 with the same arguments on an unchanged tree,
\* with no monitor in either, caching enabled, the earlier cache saved and
\* its TTL not expired
IsRescan(i) ==
    /\ i \in 2..Len(hist)
    /\ hist[i].args = hist[i - 1].args
    /\ hist[i].fs = hist[i - 1].fs
    /\ ~hist[i].mon.present /\ ~hist[i - 1].mon.present
    /\ ~hist[i].args.no_cache
    /\ hist[i - 1].enabled_before /\ hist[i].enabled_before
    /\ hist[i - 1].result.save_ok
    /\ hist[i].time - hist[i - 1].time < hist[i].args.cache_ttl

\* C2: a scan that immediately follows a scan of the same root with the
\* same arguments, no file system change, caching enabled and an unexpired
\* TTL has cache_hits > 0 and returns the FileEntry list of the scan before.
C2_RescanSameEntries ==
    \A i \in DOMAIN hist :
        IsRescan(i) =>
            /\ hist[i].result.cache_hits > 0
            /\ hist[i].result.entries = hist[i - 1].result.entries

\* The tree root/{a/{f1,f2}, b/{f3}} scanned with the default arguments and
\* its cache written, then one more block allocated to root/a/f1 and
\* nothing else changed, then scanned again (scan i)
IsAppendRescan(i) ==
    /\ i \in 2..Len(hist)
    /\ hist[i - 1].fs = SmallTree
    /\ hist[i - 1].args = BaseArgs /\ hist[i].args = BaseArgs
    /\ ~hist[i].mon.present /\ ~hist[i - 1].mon.present
    /\ hist[i - 1].result.saving /\ hist[i - 1].result.save_ok
    /\ hist[i].fs[F1].blocks = SmallTree[F1].blocks + 1
    /\ \A p \in Universe \ {F1} : hist[i].fs[p] = SmallTree[p]

\* C3: after a scan of root/{a/{f1,f2}, b/{f3}} wrote the cache and
\* root/a/f1 grew, the next scan treats root/a as a cache miss and emits
\* for root/a the size with the file's new allocated size.
C3_AppendIsMiss ==
    \A i \in DOMAIN hist :
        IsAppendRescan(i) =>
            /\ DirA \notin hist[i].result.served
            /\ DirA \in hist[i].result.walked
            /\ \E k \in DirEntries(hist[i].result) :
                  /\ hist[i].result.entries[k].path = DirA
                  /\ hist[i].result.entries[k].size
                        = SubtreeBytes(hist[i].fs, DirA, BaseArgs)

\* The monitor's last answer in scan i was "exceeds"
Exceeded(i) ==
    /\ i \in DOMAIN hist
    /\ hist[i].mon.present
    /\ hist[i].mon.answers # <<>>
    /\ hist[i].mon.answers[Len(hist[i].mon.answers)] = "exceeds"

\* The entries scan result r holds for walked paths, counted with the
\* files a bulk entry stands for
CollectedCount(r) ==
    SumOver({k \in DOMAIN r.entries : r.entries[k].path \in r.walked},
            [k \in DOMAIN r.entries |-> r.entries[k].count])

\* The bytes of the collected files of r under directory d
CollectedBytes(r, d) ==
    SumOver({k \in FileEntries(r) : StartsWith(r.entries[k].path, d)},
            [k \in DOMAIN r.entries |-> r.entries[k].size * r.entries[k].count])

\* C10: when a periodic check finds exceeds_limit() true, the entry it was
\* made at is the last one pulled from the walker, the entries collected
\* before it are all returned with the directory sizes aggregated over
\* them, and the result has memory_status = MemoryLimitHit and
\* memory_limit_hit = true.
C10_ExceedsStopsWalk ==
    \A i \in DOMAIN hist :
        Exceeded(i) =>
            LET r == hist[i].result
                K == memory_check_interval(hist[i].args.memory_check_interval_ms)
            IN /\ r.memory_limit_hit
               /\ r.memory_status = "MemoryLimitHit"
               /\ r.pulled = r.checks * K
               /\ CollectedCount(r) = r.pulled - 1
               /\ \A k \in DirEntries(r) :
                     r.entries[k].path \in r.walked =>
                        r.entries[k].size = CollectedBytes(r, r.entries[k].path)

C10_Witness ==
    \E i \in DOMAIN hist :
        /\ Exceeded(i)
        /\ hist[i].result.checks = 2
        /\ hist[i].result.memory_limit_hit
        /\ \E k \in DirEntries(hist[i].result) : hist[i].result.entries[k].size > 0

\* C11: a scan run with a memory monitor whose limit is at or below the
\* process RSS all through the scan returns memory_status = MemoryLimitHit,
\* whatever the tree.
C11_LowLimitIsHit ==
    \A i \in DOMAIN hist :
        hist[i].mon = LowLimitMonitor =>
            hist[i].result.memory_status = "MemoryLimitHit"

\* C12: a scan that ends with memory_status = MemoryLimitHit leaves the
\* cache file of the root as it was before the scan (absent if it was
\* absent).
C12_LimitHitWritesNoCache ==
    \A i \in DOMAIN hist :
        hist[i].result.memory_status = "MemoryLimitHit" =>
            hist[i].result.disk.bin = hist[i].disk_before.bin

\* Scan i had a monitor that answered "nearing" at some consultation
Neared(i) ==
    /\ i \in DOMAIN hist
    /\ hist[i].mon.present
    /\ \E n \in 1..hist[i].result.checks : MonitorAnswer(hist[i].mon, n) = "nearing"

\* C13: in a scan where a consultation of the monitor finds nearing_limit()
\* true, the scanner calls set_enabled(false) exactly once (the cache is
\* disabled after the scan), counts no children in the aggregation phase
\* (every walked directory is emitted with 0 inodes), saves no cache at
\* the end (the cache directory is as the load left it), and returns
\* NearingLimit, or MemoryLimitHit when a later consultation exceeded.
C13_NearingDisables ==
    \A i \in DOMAIN hist :
        Neared(i) =>
            LET r == hist[i].result
            IN /\ r.set_enabled_calls = 1
               /\ ~r.enabled
               /\ \A k \in DirEntries(r) :
                     r.entries[k].path \in r.walked => r.entries[k].inodes = Some(0)
               /\ ~r.saving
               /\ r.disk = r.disk_after_load
               /\ r.memory_status = IF Exceeded(i) THEN "MemoryLimitHit" ELSE "NearingLimit"

\* A scan with inode counting on, started with the cache enabled and no
\* cache file, whose monitor answered "nearing" twice: walked directories
\* with children were emitted, the cache was disabled once and no file
\* was written
C13_Witness ==
    \E i \in DOMAIN hist :
        /\ Neared(i)
        /\ hist[i].mon.answers = <<"nearing", "nearing">>
        /\ hist[i].args.show_inodes /\ hist[i].enabled_before
        /\ hist[i].disk_before.bin = NoFile
        /\ hist[i].result.disk.bin = NoFile
        /\ hist[i].result.set_enabled_calls = 1
        /\ hist[i].result.memory_status = "NearingLimit"
        /\ {DirA, DirB} \subseteq hist[i].result.walked

\* The immediate children of directory d in tree f that a scan with args
\* does not exclude, files and sub-directories alike
ChildCount(f, d, args) ==
    SumOver({p \in Universe :
                /\ f[p].ex /\ Parent(p) = d
                /\ ~is_match(expand_exclude_patterns(args.exclude), p)
                /\ ~component_excluded(args.exclude, p)},
            [p \in Universe |-> f[p].count])

\* Every cached entry that the scan of record h served carries the child
\* count its directory has now
ServedInodesAccurate(h) ==
    \A q \in h.result.served :
        h.result.loaded[q].inode_cnt = Some(ChildCount(h.fs, q, h.args))

\* C17: every directory emitted by a scan with inode counting enabled has
\* inodes equal to the number of its immediate non-excluded children, files
\* plus sub-directories (stated for the scans without a memory monitor in
\* which every cache entry served carries an accurate count).
C17_InodesAreChildren ==
    \A i \in DOMAIN hist :
        LET h == hist[i]
        IN (h.args.show_inodes /\ ~h.mon.present /\ ServedInodesAccurate(h)) =>
              \A k \in DirEntries(h.result) :
                  h.result.entries[k].inodes
                      = Some(ChildCount(h.fs, h.result.entries[k].path, h.args))

\* Path p is excluded by the arguments of a scan
Excluded(args, p) ==
    \/ is_match(expand_exclude_patterns(args.exclude), p)
    \/ component_excluded(args.exclude, p)

C19_NoCacheIsFresh ==
    \A i \in DOMAIN hist :
        LET h == hist[i]
        IN h.args.no_cache =>
              /\ h.result.cache_hits = 0
              /\ h.result.cache_total = 0
              /\ h.result.loaded = <<>>
              /\ h.result.disk = h.disk_before
              /\ h.result.served = {}
              /\ \A p \in DirPaths :
                    (h.fs[p].ex /\ ~Excluded(h.args, p)) => p \in h.result.walked

\* A no_cache scan right after a scan that wrote the cache: the file is
\* there and would be valid, and the scan walked every directory
C19_Witness ==
    /\ Len(hist) = 2
    /\ hist[2].args.no_cache
    /\ hist[1].result.saving /\ hist[1].result.save_ok
    /\ hist[2].disk_before.bin # NoFile
    /\ hist[2].fs = hist[1].fs /\ hist[2].time = hist[1].time
    /\ {Root, DirA, DirB} \subseteq hist[2].result.walked

\* C20: when root/{a/{f1,f2}, b/{f3}} is scanned and at once scanned again
\* unchanged, the second scan reports cache_hits >= 2, root/a and root/b
\* each counting as a hit.
C20_RescanHitsSubdirs ==
    \A i \in DOMAIN hist :
        (IsRescan(i) /\ hist[i].fs = SmallTree /\ hist[i].args = BaseArgs
            /\ hist[i].time = hist[i - 1].time) =>
                hist[i].result.cache_hits >= 2

\* C27: in every scan result a file entry carries no inode count, and a
\* directory entry carries one exactly when the scan was run with inode
\* counting, whether the directory was walked or served from the cache.
C27_InodesIffShown ==
    \A i \in DOMAIN hist :
        LET h == hist[i]
        IN \A k \in DOMAIN h.result.entries :
              LET e == h.result.entries[k]
              IN /\ e.entry_type = "File" => e.inodes = None
                 /\ e.entry_type = "Dir" => (IsSome(e.inodes) <=> h.args.show_inodes)

\* entries is in the order sort_key asks for: sizes never increasing for
\* "size", paths ascending for "name"
IsSorted(entries, sort_key) ==
    \A k, l \in DOMAIN entries :
        k < l => IF sort_key = "size" THEN entries[k].size >= entries[l].size
                 ELSE ~PathLess(entries[l].path, entries[k].path)

C29_EmptyRootIsEmpty ==
    \A i \in DOMAIN hist :
        LET h == hist[i]
        IN ChildrenOf(h.fs, Root) = <<>> =>
              /\ h.result.entries = <<>>
              /\ h.result.cache_hits = 0
              /\ h.result.cache_total = 0

\* What scan record h would have returned had its cache save succeeded
WithSaveOk(h) ==
    RunScan(h.fs, h.disk_before, h.enabled_before, h.time, h.args, h.mon, "ok")

\* C31: a failure to save the cache at the end of a scan is not
\* propagated: the scan returns Ok with the entries, the cache statistics
\* and the memory status it would have returned had the save succeeded.
C31_SaveFailureNotFatal ==
    \A i \in DOMAIN hist :
        LET h == hist[i]
        IN (h.result.saving /\ ~h.result.save_ok) =>
              /\ h.result.ok
              /\ h.result.entries = WithSaveOk(h).entries
              /\ h.result.cache_hits = WithSaveOk(h).cache_hits
              /\ h.result.cache_total = WithSaveOk(h).cache_total
              /\ h.result.memory_limit_hit = WithSaveOk(h).memory_limit_hit
              /\ h.result.memory_status = WithSaveOk(h).memory_status

\* A scan that walked the tree, tried to save its cache and failed
C31_Witness ==
    \E i \in DOMAIN hist :
        /\ hist[i].save_outcome = "write_fails"
        /\ hist[i].result.saving /\ ~hist[i].result.save_ok
        /\ hist[i].result.ok
        /\ Len(hist[i].result.entries) > 1

\* The walker of scan record h reached directory D and found a valid
\* cached entry for it
HitAt(h, D) ==
    /\ D \in DOMAIN h.result.loaded
    /\ D \in h.result.served
    /\ D = Root \/ Parent(D) \in h.result.walked

Emitted(h, q) == \E k \in DOMAIN h.result.entries : h.result.entries[k].path = q

WithinDepth(args, q) == IsSome(args.depth) => Len(q) - Len(Root) <= Unwrap(args.depth)

\* C32: on a valid cache hit at directory D the walker does not descend
\* into D, and a cached entry whose path is strictly under D is emitted
\* exactly when its depth below root is within the depth limit, if there
\* is one, and neither the matcher nor the exclude names of this scan
\* exclude it.
C32_HitRehydrates ==
    \A i \in DOMAIN hist :
        LET h == hist[i]
        IN \A D \in DirPaths :
              HitAt(h, D) =>
                 /\ \A p \in h.result.walked : ~StartsWith(p, D)
                 /\ \A q \in DOMAIN h.result.loaded :
                       (StartsWith(q, D) /\ q # D) =>
                          (Emitted(h, q) <=> (WithinDepth(h.args, q) /\ ~Excluded(h.args, q)))

\* A scan with depth 1 is served root from a cache that holds root/a/d:
\* root/a is emitted, root/a/d is not, nothing is walked
C32_Witness ==
    \E i \in DOMAIN hist :
        LET h == hist[i]
        IN /\ h.args.depth = Some(1)
           /\ HitAt(h, Root)
           /\ DirD \in DOMAIN h.result.loaded
           /\ Emitted(h, DirA) /\ ~Emitted(h, DirD)
           /\ h.result.walked = {}

\* C33: only cached entries of kind directory drive skip decisions and
\* synthetic output: a cached entry of kind file never prunes the subtree
\* of a directory and is never put into the aggregation maps or the
\* result as a cache-served entry.
C33_OnlyDirsServed ==
    \A i \in DOMAIN hist :
        LET h == hist[i]
        IN \A q \in DOMAIN h.result.loaded :
              h.result.loaded[q].entry_type = "File" => q \notin h.result.served

\* C36: every directory entry a scan computes and persists to the cache
\* file has as size the allocated bytes of all the non-excluded files in
\* the directory's subtree at scan time: no aggregate of a walk the memory
\* limit cut short and no aggregate that leaves out a child served from
\* the cache is persisted.
C36_PersistedSizesAreFull ==
    \A i \in DOMAIN hist :
        LET h == hist[i]
            file == h.result.disk.bin
        IN (h.result.saving /\ h.result.save_ok /\ file.fmt = "cache") =>
              \A k \in DOMAIN file.entries :
                  (file.entries[k].entry_type = "Dir" /\ file.entries[k].path \in h.result.walked)
                      => file.entries[k].size
                            = SubtreeBytes(h.fs, file.entries[k].path, h.args)

\* The entries a scan of tree f with args returns when it finds no cache
FreshEntries(f, t, args) ==
    RunScan(f, EmptyDisk, TRUE, t, args, NoMonitor, "ok").entries

\* Scan i runs, without a monitor and with caching enabled, right after a
\* scan of the same tree that wrote the cache with another depth limit,
\* other exclude names or another show_inodes setting
AfterOtherSettings(i) ==
    /\ i \in 2..Len(hist)
    /\ hist[i].fs = hist[i - 1].fs
    /\ ~hist[i].mon.present /\ ~hist[i - 1].mon.present
    /\ hist[i].enabled_before /\ hist[i - 1].enabled_before
    /\ hist[i - 1].result.saving /\ hist[i - 1].result.save_ok
    /\ \/ hist[i].args.depth # hist[i - 1].args.depth
       \/ hist[i].args.exclude # hist[i - 1].args.exclude
       \/ hist[i].args.show_inodes # hist[i - 1].args.show_inodes

\* C37: the entries a scan returns depend on the tree and the scan's own
\* arguments only: a scan that loads a cache written by an earlier scan
\* with another depth limit, other exclude patterns or another
\* show_inodes setting returns the entries the same scan returns on the
\* same tree without that cache.
C37_EntriesIgnoreCacheHistory ==
    \A i \in DOMAIN hist :
        AfterOtherSettings(i) =>
            hist[i].result.entries = FreshEntries(hist[i].fs, hist[i].time, hist[i].args)

\* C38: the cache flag a scan set to false on observing nearing-limit is
\* false when the scan returns and stays false: every later scan of the
\* process starts with the flag off, loads an empty cache, has
\* cache_hits = 0 and leaves the cache directory as it found it.  (No
\* step of the scanner calls set_enabled(true).)
C38_FlagStaysOff ==
    \A i, j \in DOMAIN hist :
        (Neared(i) /\ i < j) =>
            /\ ~hist[i].result.enabled
            /\ ~hist[j].enabled_before
            /\ hist[j].result.loaded = <<>>
            /\ hist[j].result.cache_hits = 0
            /\ hist[j].result.disk = hist[j].disk_before

\* A scan served root/a from the cache and neared the limit; the next
\* scan, with caching asked for and the cache file still there, walked
\* root/a afresh
C38_Witness ==
    /\ Len(hist) = 2
    /\ Neared(1)
    /\ DirA \in hist[1].result.served
    /\ ~hist[2].args.no_cache
    /\ hist[2].fs = hist[1].fs
    /\ hist[2].disk_before.bin.fmt = "cache"
    /\ DirA \in hist[2].result.walked

\* C40: every path appears at most once in a scan result: no path is both
\* walked and served from the cache, and no cached descendant is emitted
\* twice when directories nested in one another are hit or restored.
C40_PathsAreUnique ==
    \A i \in DOMAIN hist :
        LET r == hist[i].result
        IN /\ \A k, l \in DOMAIN r.entries :
                 r.entries[k].path = r.entries[l].path => k = l
           /\ r.walked \cap r.served = {}

\* A scan walked root and was served root/a, with root/a/d restored from
\* the cache, and root/b
C40_Witness ==
    \E i \in DOMAIN hist :
        LET r == hist[i].result
        IN /\ Root \in r.walked
           /\ {DirA, DirD, DirB} \subseteq r.served
           /\ Len(r.entries) >= 4

---------------------------------------------------------------------------
(* CacheHeader::should_invalidate on its own: a header and the facts the
   call reads are drawn at the start, one step applies the function *)

OptionalTimes == {None} \cup {Some(t) : t \in 0..MaxTime}

Headers ==
    {CacheHeader(r, t, v, m) :
        r \in {Root, DirA}, t \in 0..MaxTime, v \in {CARGO_PKG_VERSION, "1.3.0"},
        m \in OptionalTimes}

\* What one call is given and reads: its arguments, the clock and the
\* mtime of root (None when root cannot be read)
Probes ==
    [root_path : {Root, DirA}, ttl_seconds : {0, 1, 604800},
     current_time : 0..MaxTime, current_root_mtime : OptionalTimes, done : {FALSE}]

InitHeader ==
    /\ hdr \in Headers
    /\ probe \in Probes
    /\ verdict = FALSE
    /\ now = 0
    /\ fs = SmallTree
    /\ disk = EmptyDisk
    /\ enabled = TRUE
    /\ hist = <<>>
    /\ ops = 0
    /\ api = <<>>
    /\ pc = <<>>
    /\ lock = 0
    /\ local = <<>>
    /\ monitor = <<>>
    /\ rss = None
    /\ ws = <<>>

CheckHeader ==
    /\ ~probe.done
    /\ verdict' = should_invalidate(hdr, probe.root_path, probe.ttl_seconds,
                                    probe.current_time, probe.current_root_mtime)
    /\ probe' = [probe EXCEPT !.done = TRUE]
    /\ UNCHANGED <<now, fs, disk, enabled, hist, ops, hdr, api, pc, lock, local, monitor, rss, ws>>

NextHeader == CheckHeader

SpecHeader == InitHeader /\ [][NextHeader]_vars

\* C7 as stated: should_invalidate is true exactly when the version
\* differs, or now - creation_time >= ttl, or the root path differs, or the
\* current mtime of root differs from the header's or the header has none.
C7_AsStated ==
    probe.done =>
        (verdict <=>
            \/ hdr.rudu_version # CARGO_PKG_VERSION
            \/ probe.current_time - hdr.creation_time >= probe.ttl_seconds
            \/ hdr.root_path # probe.root_path
            \/ probe.current_root_mtime # hdr.root_mtime
            \/ hdr.root_mtime = None)

\* C7, amended: should_invalidate is true exactly when the version
\* differs, or the time since creation_time (0 when creation_time lies in
\* the future) is >= ttl, or the root path differs, or the mtime of root
\* can be read and the header has none or a different one.
C7_Invalidation ==
    probe.done =>
        (verdict <=>
            \/ hdr.rudu_version # CARGO_PKG_VERSION
            \/ Max(probe.current_time - hdr.creation_time, 0) >= probe.ttl_seconds
            \/ hdr.root_path # probe.root_path
            \/ /\ probe.current_root_mtime # None
               /\ \/ hdr.root_mtime = None
                  \/ hdr.root_mtime # probe.current_root_mtime)

\* A header without root_mtime checked for a root whose mtime cannot be
\* read, all else matching, is kept
C7_Witness ==
    /\ probe.done
    /\ ~verdict
    /\ hdr.root_mtime = None
    /\ probe.current_root_mtime = None

\* Nothing but the TTL can invalidate the header: version and root path
\* match, and the mtime of root is unreadable or equal to the header's
NoOtherGround ==
    /\ hdr.rudu_version = CARGO_PKG_VERSION
    /\ hdr.root_path = probe.root_path
    /\ probe.current_root_mtime = None \/ probe.current_root_mtime = hdr.root_mtime

\* C25: the TTL check includes its boundary.  A header created exactly ttl
\* seconds before now is invalidated; one created less than ttl seconds
\* ago is not invalidated by its age; ttl 0 invalidates every header; a
\* creation_time later than now counts as age 0, with no underflow.
C25_TtlBoundary ==
    probe.done =>
        /\ (/\ hdr.creation_time <= probe.current_time
            /\ probe.current_time - hdr.creation_time = probe.ttl_seconds) => verdict
        /\ probe.ttl_seconds = 0 => verdict
        /\ (/\ hdr.creation_time <= probe.current_time
            /\ probe.current_time - hdr.creation_time < probe.ttl_seconds
            /\ NoOtherGround) => ~verdict
        /\ (/\ hdr.creation_time > probe.current_time
            /\ probe.ttl_seconds > 0
            /\ NoOtherGround) => ~verdict

\* A header exactly ttl > 0 seconds old, with nothing else against it, is
\* invalidated
C25_Witness ==
    /\ probe.done
    /\ probe.ttl_seconds > 0
    /\ probe.current_time - hdr.creation_time = probe.ttl_seconds
    /\ NoOtherGround
    /\ verdict

---------------------------------------------------------------------------
(* CacheEntry::is_valid on its own: one entry, one current mtime and link
   count, one call.  probe holds the entry and the arguments, verdict what
   the call returned. *)

ValidProbes ==
    [entry : {CacheEntry(path_hash(DirA), DirA, 1024, m, n, Some(1), Some(1000), "Dir") :
                 m \in 0..MaxMtime, n \in 1..MaxNlink},
     current_mtime : 0..MaxMtime, current_nlink : 1..MaxNlink, done : {FALSE}]

InitValid ==
    /\ probe \in ValidProbes
    /\ verdict = FALSE
    /\ hdr = CacheHeader(Root, 0, CARGO_PKG_VERSION, None)
    /\ now = 0
    /\ fs = SmallTree
    /\ disk = EmptyDisk
    /\ enabled = TRUE
    /\ hist = <<>>
    /\ ops = 0
    /\ api = <<>>
    /\ pc = <<>>
    /\ lock = 0
    /\ local = <<>>
    /\ monitor = <<>>
    /\ rss = None
    /\ ws = <<>>

CheckValid ==
    /\ ~probe.done
    /\ verdict' = is_valid(probe.entry, probe.current_mtime, probe.current_nlink)
    /\ probe' = [probe EXCEPT !.done = TRUE]
    /\ UNCHANGED <<now, fs, disk, enabled, hist, ops, hdr, api, pc, lock, local, monitor, rss, ws>>

NextValid == CheckValid

SpecValid == InitValid /\ [][NextValid]_vars

\* C24: is_valid(current_mtime, current_nlink) is true exactly when the
\* entry's mtime equals current_mtime and its nlink equals current_nlink;
\* a changed link count with the same mtime makes the entry invalid.
C24_ValidIffBoth ==
    probe.done =>
        /\ verdict <=> (/\ probe.entry.mtime = probe.current_mtime
                        /\ probe.entry.nlink = probe.current_nlink)
        /\ probe.entry.nlink # probe.current_nlink => ~verdict

\* An entry checked against its own mtime and another link count
C24_Witness ==
    /\ probe.done
    /\ probe.entry.mtime = probe.current_mtime
    /\ probe.entry.nlink # probe.current_nlink
    /\ ~verdict

---------------------------------------------------------------------------
(* Where the cache file of a root lives: load_cache, save_cache_with_mtime
   and invalidate_cache each resolve the path from the root and the
   process environment.  probe holds the environment, the root and whether
   the cache directory can be created; verdict the Result of the
   resolution the operation made. *)

Ok(v) == [ok |-> TRUE, value |-> v]
Err == [ok |-> FALSE, value |-> <<>>]

\* One digit of {:x}
HexDigit(d) ==
    CASE d = 0 -> "0" [] d = 1 -> "1" [] d = 2 -> "2" [] d = 3 -> "3"
      [] d = 4 -> "4" [] d = 5 -> "5" [] d = 6 -> "6" [] d = 7 -> "7"
      [] d = 8 -> "8" [] d = 9 -> "9" [] d = 10 -> "a" [] d = 11 -> "b"
      [] d = 12 -> "c" [] d = 13 -> "d" [] d = 14 -> "e" [] d = 15 -> "f"

\* format!("{:x}", n)
RECURSIVE Hex(_)
Hex(n) == IF n < 16 THEN HexDigit(n) ELSE Hex(n \div 16) \o HexDigit(n % 16)

\* format!("{:x}.bin", root_hash)
cache_file_name(root) == Hex(path_hash(root)) \o ".bin"

\* get_xdg_cache_dir
get_xdg_cache_dir(env) ==
    IF IsSome(env.XDG_CACHE_HOME) THEN Ok(Unwrap(env.XDG_CACHE_HOME))
    ELSE IF IsSome(env.HOME) THEN Ok(Unwrap(env.HOME) \o <<".cache">>)
    ELSE Err

\* cache_root: the one reader of RUDU_CACHE_DIR
cache_root(env) ==
    IF IsSome(env.RUDU_CACHE_DIR) THEN Unwrap(env.RUDU_CACHE_DIR)
    ELSE IF get_xdg_cache_dir(env).ok THEN get_xdg_cache_dir(env).value
    ELSE <<"tmp", "rudu-cache">>

\* Cache::get_cache_path_without_write_test
get_cache_path_without_write_test(env, root, mkdir_ok) ==
    IF ~get_xdg_cache_dir(env).ok THEN Err
    ELSE IF ~mkdir_ok THEN Err
    ELSE Ok(get_xdg_cache_dir(env).value \o <<"rudu", cache_file_name(root)>>)

Environments ==
    [RUDU_CACHE_DIR : {None, Some(<<"custom">>)},
     XDG_CACHE_HOME : {None, Some(<<"xdg">>), Some(<<"root", "a">>)},
     HOME : {None, Some(<<"home">>), Some(<<"root">>)}]

PathProbes ==
    [env : Environments, root : {Root, DirA}, mkdir_ok : BOOLEAN,
     op : {"none"}, done : {FALSE}]

InitPath ==
    /\ probe \in PathProbes
    /\ verdict = Err
    /\ hdr = CacheHeader(Root, 0, CARGO_PKG_VERSION, None)
    /\ now = 0
    /\ fs = SmallTree
    /\ disk = EmptyDisk
    /\ enabled = TRUE
    /\ hist = <<>>
    /\ ops = 0
    /\ api = <<>>
    /\ pc = <<>>
    /\ lock = 0
    /\ local = <<>>
    /\ monitor = <<>>
    /\ rss = None
    /\ ws = <<>>

\* The first statement after the flag check of load_cache, and the first
\* of invalidate_cache and save_cache_with_mtime
ResolvePath(op) ==
    /\ ~probe.done
    /\ verdict' = get_cache_path_without_write_test(probe.env, probe.root, probe.mkdir_ok)
    /\ probe' = [probe EXCEPT !.done = TRUE, !.op = op]
    /\ UNCHANGED <<now, fs, disk, enabled, hist, ops, hdr, api, pc, lock, local, monitor, rss, ws>>

PathOfLoad == ResolvePath("load")
PathOfSave == ResolvePath("save")
PathOfInvalidate == ResolvePath("invalidate")

NextPath == PathOfLoad \/ PathOfSave \/ PathOfInvalidate

SpecPath == InitPath /\ [][NextPath]_vars

\* C26: the cache file of load, save and invalidate is
\* RUDU_CACHE_DIR/<hex hash of root>.bin when RUDU_CACHE_DIR is set,
\* otherwise XDG_CACHE_HOME/rudu/<hex hash>.bin when XDG_CACHE_HOME is
\* set, otherwise HOME/.cache/rudu/<hex hash>.bin; it is never a path
\* inside the scanned root.
C26_CachePathOrder ==
    (probe.done /\ probe.mkdir_ok) =>
        LET env == probe.env
            name == cache_file_name(probe.root)
        IN /\ IsSome(env.RUDU_CACHE_DIR)
                => verdict = Ok(Unwrap(env.RUDU_CACHE_DIR) \o <<name>>)
           /\ (~IsSome(env.RUDU_CACHE_DIR) /\ IsSome(env.XDG_CACHE_HOME))
                => verdict = Ok(Unwrap(env.XDG_CACHE_HOME) \o <<"rudu", name>>)
           /\ (/\ ~IsSome(env.RUDU_CACHE_DIR) /\ ~IsSome(env.XDG_CACHE_HOME)
               /\ IsSome(env.HOME))
                => verdict = Ok(Unwrap(env.HOME) \o <<".cache", "rudu", name>>)
           /\ verdict.ok => ~StartsWith(verdict.value, probe.root)

---------------------------------------------------------------------------
(* The cache module called directly: set_enabled, load_cache, save_cache,
   save_cache_with_mtime and invalidate_cache for the root Root, one call
   after the other, on a cache directory that may hold a file from before.
   api records the calls. *)

GoodEntry(p, size) == CacheEntry(path_hash(p), p, size, 0, 2, Some(1), Some(1000), "Dir")

OneEntry == (Root :> GoodEntry(Root, 1536))
TwoEntries == (Root :> GoodEntry(Root, 1536)) @@ (DirA :> GoodEntry(DirA, 1024))

\* The maps the model saves: empty, one and two entries as the scanner
\* builds them, two entries whose path_hash fields are both 0, and an entry
\* whose path field is not its key
SaveMaps ==
    { <<>>, OneEntry, TwoEntries,
      (Root :> [GoodEntry(Root, 1536) EXCEPT !.path_hash = 0])
          @@ (DirA :> [GoodEntry(DirA, 1024) EXCEPT !.path_hash = 0]),
      (Root :> [GoodEntry(Root, 1536) EXCEPT !.path = DirB]) }

\* The Cache a save at time 0 of TwoEntries for Root (mtime 0) writes
StoredCache == [header |-> new_with_mtime(Root, Some(0), 0), entries |-> Rekey(TwoEntries)]

\* What the cache path may hold when the process starts: nothing, a
\* zero-length file, bytes that are no cache, a cache cut short, a map in
\* the legacy format, a cache saved for Root, one written by another
\* version, one written for another root
StoredFiles ==
    { NoFile,
      [NoFile EXCEPT !.fmt = "garbage"],
      [NoFile EXCEPT !.fmt = "garbage", !.len = 3],
      [serialize(StoredCache) EXCEPT !.len = @ - 1],
      serialize_legacy(OneEntry),
      serialize(StoredCache),
      serialize([StoredCache EXCEPT !.header.rudu_version = "1.3.0"]),
      serialize([StoredCache EXCEPT !.header.root_path = DirA]) }

BaseCall ==
    [op |-> "none", enabled |-> TRUE, path_ok |-> TRUE, before |-> EmptyDisk,
     after |-> EmptyDisk, time |-> 0, cur_mtime |-> None, ttl |-> 0, cache |-> <<>>,
     root_mtime |-> None, ok |-> TRUE, map |-> <<>>, arg |-> FALSE]

\* A call record with what every call notes: the flag, the clock, the
\* mtime of Root and the cache directory before and after
Call(op, path_ok, after) ==
    [BaseCall EXCEPT !.op = op, !.enabled = enabled, !.path_ok = path_ok,
                     !.before = disk, !.after = after, !.time = now,
                     !.cur_mtime = get_root_mtime(fs, Root)]

InitStore ==
    /\ now = 0
    /\ fs = SmallTree
    /\ \E f \in StoredFiles : disk = [EmptyDisk EXCEPT !.bin = f]
    /\ enabled = TRUE
    /\ api = <<>>
    /\ hist = <<>>
    /\ ops = 0
    /\ hdr = NoHeader
    /\ probe = <<>>
    /\ verdict = FALSE
    /\ pc = <<>>
    /\ lock = 0
    /\ local = <<>>
    /\ monitor = <<>>
    /\ rss = None
    /\ ws = <<>>

DoSetEnabled(b) ==
    /\ enabled' = b
    /\ api' = Append(api, [Call("set_enabled", TRUE, disk) EXCEPT !.arg = b])
    /\ UNCHANGED <<now, fs, disk, hist, ops, hdr, probe, verdict, pc, lock, local, monitor, rss, ws>>

StoreLoadStep(ttl, path_ok, r) ==
    /\ disk' = r.disk
    /\ api' = Append(api, [Call("load", path_ok, r.disk) EXCEPT !.ttl = ttl, !.map = r.map])

DoLoad(ttl, path_ok) ==
    /\ StoreLoadStep(ttl, path_ok,
                     load_cache(disk, enabled, path_ok, get_root_mtime(fs, Root), now, Root, ttl))
    /\ UNCHANGED <<now, fs, enabled, hist, ops, hdr, probe, verdict, pc, lock, local, monitor, rss, ws>>

StoreSaveStep(i, root_mtime, r) ==
    /\ disk' = r.disk
    /\ api' = Append(api, [Call("save", i.path_ok, r.disk) EXCEPT
                              !.cache = i.cache, !.root_mtime = root_mtime, !.ok = r.ok])

\* save_cache, or save_cache_with_mtime given no mtime
DoSave(i) ==
    /\ \/ /\ i.given = "current"
          /\ StoreSaveStep(i, get_root_mtime(fs, Root),
                           save_cache(disk, enabled, i.path_ok, now, Root, i.cache, fs, i.outcome))
       \/ /\ i.given = "none"
          /\ StoreSaveStep(i, None,
                           save_cache_with_mtime(disk, enabled, i.path_ok, now, Root, i.cache,
                                                 None, i.outcome))
    /\ UNCHANGED <<now, fs, enabled, hist, ops, hdr, probe, verdict, pc, lock, local, monitor, rss, ws>>

StoreInvalidateStep(path_ok, r) ==
    /\ disk' = r.disk
    /\ api' = Append(api, [Call("invalidate", path_ok, r.disk) EXCEPT !.ok = r.ok, !.arg = r.removed])

DoInvalidate(path_ok) ==
    /\ StoreInvalidateStep(path_ok, invalidate_cache(disk, path_ok, now))
    /\ UNCHANGED <<now, fs, enabled, hist, ops, hdr, probe, verdict, pc, lock, local, monitor, rss, ws>>

\* Something changes in Root: its mtime becomes the current second
TouchRoot ==
    /\ fs[Root].mtime # now
    /\ fs' = Touch(fs, Root, now)
    /\ UNCHANGED <<now, disk, enabled, hist, ops, hdr, probe, verdict, api, pc, lock, local, monitor, rss, ws>>

StoreLoads ==
    { [ttl |-> 604800, path_ok |-> TRUE], [ttl |-> 1, path_ok |-> TRUE],
      [ttl |-> 604800, path_ok |-> FALSE] }

StoreSaves ==
    {[cache |-> m, given |-> "current", outcome |-> "ok", path_ok |-> TRUE] : m \in SaveMaps}
      \cup {[cache |-> TwoEntries, given |-> "none", outcome |-> "ok", path_ok |-> TRUE],
            [cache |-> TwoEntries, given |-> "current", outcome |-> "ok", path_ok |-> FALSE]}
      \cup {[cache |-> TwoEntries, given |-> "current", outcome |-> o, path_ok |-> TRUE] :
               o \in SaveOutcomes}

StoreSetEnabled(b) == Len(api) < MaxCalls /\ DoSetEnabled(b)
StoreLoad(ttl, path_ok) == Len(api) < MaxCalls /\ DoLoad(ttl, path_ok)
StoreSave(i) == Len(api) < MaxCalls /\ DoSave(i)
StoreInvalidate(path_ok) == Len(api) < MaxCalls /\ DoInvalidate(path_ok)

NextStore ==
    \/ Tick
    \/ TouchRoot
    \/ \E b \in BOOLEAN : StoreSetEnabled(b)
    \/ \E i \in StoreLoads : StoreLoad(i.ttl, i.path_ok)
    \/ \E i \in StoreSaves : StoreSave(i)
    \/ \E ok \in BOOLEAN : StoreInvalidate(ok)

SpecStore == InitStore /\ [][NextStore]_vars

\* The flag switched off and on between saves and loads: longer runs of
\* fewer kinds of call
FlagSaves == {i \in StoreSaves : i.given = "current" /\ i.outcome = "ok" /\ i.path_ok
                                  /\ i.cache \in {OneEntry, TwoEntries}}

FlagSetEnabled(b) == Len(api) < MaxFlagCalls /\ DoSetEnabled(b)
FlagLoad == Len(api) < MaxFlagCalls /\ DoLoad(604800, TRUE)
FlagSave(i) == Len(api) < MaxFlagCalls /\ DoSave(i)

NextFlag ==
    \/ \E b \in BOOLEAN : FlagSetEnabled(b)
    \/ FlagLoad
    \/ \E i \in FlagSaves : FlagSave(i)

SpecFlag == InitStore /\ [][NextFlag]_vars

\* The calls of one kind
Calls(op) == {i \in DOMAIN api : api[i].op = op}

\* The file holds every unit of the value serialized into it
Complete(file) ==
    \/ file.fmt = "cache" /\ file.len >= CacheLen(file)
    \/ file.fmt = "legacy" /\ file.len >= EntriesLen(file.entries)

\* The header of a cache file fails an invalidation check of call c
Stale(header, c) ==
    \/ header.rudu_version # CARGO_PKG_VERSION
    \/ Max(c.time - header.creation_time, 0) >= c.ttl
    \/ header.root_path # Root
    \/ c.cur_mtime # None /\ header.root_mtime # c.cur_mtime

\* The file at the cache path before call c is a whole cache that passes
\* the invalidation checks of c
Fresh(c) ==
    /\ c.before.bin.fmt = "cache"
    /\ Complete(c.before.bin)
    /\ ~Stale(c.before.bin.header, c)

\* C6: load_cache returns an empty map whenever the cache is disabled, the
\* file is absent, empty, cut short or not a cache, or its header fails an
\* invalidation check; it returns a non-empty map only for a present,
\* whole, non-invalidated cache file with entries.  (load_cache has no
\* error result: every failure inside it ends in the empty map.)
C6_LoadEmptyOrValid ==
    \A i \in Calls("load") :
        LET c == api[i]
        IN /\ (\/ ~c.enabled
               \/ c.before.bin.fmt = "none"
               \/ c.before.bin.len = 0
               \/ ~Complete(c.before.bin)
               \/ c.before.bin.fmt = "garbage"
               \/ c.before.bin.fmt = "cache" /\ Stale(c.before.bin.header, c))
                 => c.map = <<>>
           /\ c.map # <<>> =>
                 /\ c.enabled
                 /\ Fresh(c)
                 /\ c.before.bin.entries # <<>>

C6_Witness ==
    /\ \E i \in Calls("load") : api[i].map # <<>>
    /\ \E i \in Calls("load") :
          /\ api[i].enabled /\ api[i].path_ok
          /\ api[i].before.bin.fmt = "cache"
          /\ ~Complete(api[i].before.bin)
          /\ api[i].map = <<>>

\* Call i is a successful save with caching enabled and call i+1 a load
\* with caching enabled, within the TTL and with the mtime of Root as it
\* was at the save
IsRoundTrip(i) ==
    /\ i \in DOMAIN api /\ i + 1 \in DOMAIN api
    /\ api[i].op = "save" /\ api[i].enabled /\ api[i].ok
    /\ api[i + 1].op = "load" /\ api[i + 1].enabled /\ api[i + 1].path_ok
    /\ api[i + 1].time - api[i].time < api[i + 1].ttl
    /\ api[i + 1].cur_mtime = api[i].cur_mtime

\* C8 as stated: for any map E saved, the load that follows returns
\* exactly the keys of E, every entry equal to the saved one field for
\* field.
C8_AsStated ==
    \A i \in DOMAIN api :
        IsRoundTrip(i) => api[i + 1].map = api[i].cache

\* C8, amended: for any map E whose entries each carry their key in the
\* path field, saved with the mtime Root has at the save, the load that
\* follows returns exactly the keys of E, every entry equal to the saved
\* one field for field.
C8_RoundTrip ==
    \A i \in DOMAIN api :
        (/\ IsRoundTrip(i)
         /\ \A p \in DOMAIN api[i].cache : api[i].cache[p].path = p
         /\ api[i].root_mtime = api[i].cur_mtime)
            => api[i + 1].map = api[i].cache

\* A round trip of two entries that share one path_hash field
C8_Witness ==
    \E i \in DOMAIN api :
        /\ IsRoundTrip(i)
        /\ api[i].root_mtime = api[i].cur_mtime
        /\ DOMAIN api[i].cache = {Root, DirA}
        /\ api[i].cache[Root].path_hash = api[i].cache[DirA].path_hash
        /\ api[i + 1].map = api[i].cache

\* set_enabled(true) was called while the flag was off, before call i
Reenabled(i) ==
    \E j \in 1..(i - 1) :
        api[j].op = "set_enabled" /\ api[j].arg /\ ~api[j].enabled

\* C9: while the cache flag is off, load_cache returns an empty map and
\* the saves return success, none of them creating, changing, renaming or
\* removing the cache file or its temporary file; once set_enabled(true)
\* has been called, a cache saved before is loaded again.
C9_DisabledIsInert ==
    /\ \A i \in Calls("load") :
          ~api[i].enabled => api[i].map = <<>> /\ api[i].after = api[i].before
    /\ \A i \in Calls("save") :
          ~api[i].enabled => api[i].ok /\ api[i].after = api[i].before
    /\ \A i \in Calls("load") :
          (api[i].enabled /\ api[i].path_ok /\ Reenabled(i) /\ Fresh(api[i]))
              => /\ api[i].map = ByPath(api[i].before.bin.entries)
                 /\ api[i].after = api[i].before

\* A cache is saved, the flag goes off, a save of another map leaves the
\* files alone, the flag goes on and the load returns the cache saved first
C9_Witness ==
    \E i, j, l \in DOMAIN api :
        /\ i < j /\ j < l
        /\ api[i].op = "save" /\ api[i].enabled /\ api[i].cache = TwoEntries
        /\ api[j].op = "save" /\ ~api[j].enabled /\ api[j].cache = OneEntry
        /\ api[j].after = api[j].before
        /\ api[l].op = "load" /\ api[l].enabled /\ Reenabled(l)
        /\ api[l].map = TwoEntries

\* C21: a cache file in the legacy format, a bare map from path to entry
\* with no header, is accepted by load_cache for its root: the load returns
\* the entries of the map, each under its path with its path field set to
\* it, not the empty map.
C21_LegacyIsLoaded ==
    \A i \in Calls("load") :
        LET c == api[i]
        IN (/\ c.enabled /\ c.path_ok
            /\ c.before.bin.fmt = "legacy"
            /\ Complete(c.before.bin)
            /\ c.ttl > 0)
              => c.map = [p \in DOMAIN c.before.bin.entries |->
                             [c.before.bin.entries[p] EXCEPT !.path = p]]

\* C22: a load that finds a file it cannot deserialize in either format
\* returns the empty map and leaves no file at the cache path.
C22_CorruptIsRemoved ==
    \A i \in Calls("load") :
        LET c == api[i]
        IN (/\ c.enabled /\ c.path_ok
            /\ c.before.bin.fmt # "none"
            /\ c.before.bin.fmt = "garbage" \/ ~Complete(c.before.bin))
              => c.map = <<>> /\ c.after.bin = NoFile

\* C23: every entry of a cache file a save has written, whatever map the
\* caller gave, and every entry a load returns has path_hash = hash(path),
\* and in the file the entry is stored under that path_hash.
C23_HashOfPath ==
    /\ \A i \in Calls("save") :
          LET c == api[i]
          IN (c.enabled /\ c.path_ok /\ c.ok /\ c.after.bin.fmt = "cache")
                => \A k \in DOMAIN c.after.bin.entries :
                      /\ c.after.bin.entries[k].path_hash
                            = path_hash(c.after.bin.entries[k].path)
                      /\ k = c.after.bin.entries[k].path_hash
    /\ \A i \in Calls("load") :
          \A p \in DOMAIN api[i].map :
              api[i].map[p].path_hash = path_hash(api[i].map[p].path)

---------------------------------------------------------------------------
(* The cache file under concurrent callers: each thread makes one call of
   load_cache, save_cache or invalidate_cache for Root, step by step.
   lock is FILE_LOCK (0: free, else the holder), pc[t] the step thread t
   takes next, local[t] its local variables. *)

Threads == 1..NumThreads

\* path.with_extension("tmp"): files are named by their extension
temp_path_InPlace(path) == path

temp_path(path) == "tmp"

NoRead == [ok |-> FALSE, header |-> NoHeader, entries |-> <<>>]
IdleLocal == [op |-> "none", data |-> NoFile, read |-> NoRead, ok |-> TRUE, map |-> <<>>]

\* What the cache path holds at the start: nothing, a cache saved for
\* Root, or one written by another version (which a load removes)
StartFiles ==
    { NoFile, serialize(StoredCache),
      serialize([StoredCache EXCEPT !.header.rudu_version = "1.3.0"]) }

InitFile ==
    /\ now = 0
    /\ fs = SmallTree
    /\ \E f \in StartFiles : disk = [EmptyDisk EXCEPT !.bin = f]
    /\ enabled = TRUE
    /\ pc = [t \in Threads |-> "idle"]
    /\ lock = 0
    /\ local = [t \in Threads |-> IdleLocal]
    /\ monitor = <<>>
    /\ rss = None
    /\ ws = <<>>
    /\ api = <<>>
    /\ hist = <<>>
    /\ ops = 0
    /\ hdr = NoHeader
    /\ probe = <<>>
    /\ verdict = FALSE

FileFrame == UNCHANGED <<now, fs, enabled, hist, ops, hdr, probe, verdict, api, monitor, rss, ws>>

Goto(t, label) == pc' = [pc EXCEPT ![t] = label]

\* load_cache: enabled, the path resolves; "Check if cache file exists"
BeginLoad(t) ==
    /\ pc[t] = "idle"
    /\ local' = [local EXCEPT ![t].op = "load"]
    /\ Goto(t, "load_exists")
    /\ UNCHANGED <<disk, lock>> /\ FileFrame

LoadExists(t) ==
    /\ pc[t] = "load_exists"
    /\ Goto(t, IF disk.bin.fmt = "none" THEN "done" ELSE "load_lock")
    /\ UNCHANGED <<disk, lock, local>> /\ FileFrame

\* load_cache_from_file: FILE_LOCK.lock()
LoadLock(t) ==
    /\ pc[t] = "load_lock"
    /\ lock = 0
    /\ lock' = t
    /\ Goto(t, "load_read")
    /\ UNCHANGED <<disk, local>> /\ FileFrame

\* File::open, metadata, Mmap::map and the two deserializations
LoadRead(t) ==
    /\ pc[t] = "load_read"
    /\ local' = [local EXCEPT ![t].read = load_cache_from_file(disk, now)]
    /\ Goto(t, "load_return")
    /\ UNCHANGED <<disk, lock>> /\ FileFrame

\* load_cache_from_file returns, dropping the guard; load_cache then
\* checks the header
LoadReturn(t) ==
    /\ pc[t] = "load_return"
    /\ lock' = 0
    /\ IF ~local[t].read.ok
       THEN Goto(t, "done") /\ UNCHANGED local
       ELSE IF should_invalidate(local[t].read.header, Root, 604800, now,
                                 get_root_mtime(fs, Root))
            THEN Goto(t, "load_remove") /\ UNCHANGED local
            ELSE /\ Goto(t, "done")
                 /\ local' = [local EXCEPT ![t].map = ByPath(local[t].read.entries)]
    /\ UNCHANGED disk /\ FileFrame

\* "Optionally remove the invalidated cache file"
LoadRemove(t) ==
    /\ pc[t] = "load_remove"
    /\ disk' = [disk EXCEPT !.bin = NoFile]
    /\ Goto(t, "done")
    /\ UNCHANGED <<lock, local>> /\ FileFrame

\* save_cache: enabled, the path resolves, the Cache is built
BeginSave(t, cache) ==
    /\ pc[t] = "idle"
    /\ local' = [local EXCEPT
                    ![t].op = "save",
                    ![t].data = serialize([header |-> new_with_mtime(Root, get_root_mtime(fs, Root), now),
                                           entries |-> Rekey(cache)])]
    /\ Goto(t, "save_lock")
    /\ UNCHANGED <<disk, lock>> /\ FileFrame

\* save_cache_to_file: FILE_LOCK.lock()
SaveLock(t) ==
    /\ pc[t] = "save_lock"
    /\ lock = 0
    /\ lock' = t
    /\ Goto(t, "save_create")
    /\ UNCHANGED <<disk, local>> /\ FileFrame

\* try_save_with_mmap: the temporary file is created or truncated, sized
\* and mapped; any of these failing sends the save to the fallback
SaveCreate(t) ==
    /\ pc[t] = "save_create"
    /\ disk' = [disk EXCEPT ![temp_path("bin")] = [local[t].data EXCEPT !.len = 0]]
    /\ \/ Goto(t, "save_copy")
       \/ Goto(t, "save_fallback")
    /\ UNCHANGED <<lock, local>> /\ FileFrame

\* copy_from_slice into the mapping: part of the data has reached the file
SaveCopy(t) ==
    /\ pc[t] = "save_copy"
    /\ disk' = [disk EXCEPT ![temp_path("bin")].len = local[t].data.len \div 2]
    /\ Goto(t, "save_flush")
    /\ UNCHANGED <<lock, local>> /\ FileFrame

\* mmap.flush(): all of it has, or the flush fails
SaveFlush(t) ==
    /\ pc[t] = "save_flush"
    /\ \/ /\ disk' = [disk EXCEPT ![temp_path("bin")] = local[t].data]
          /\ Goto(t, "save_rename")
       \/ /\ UNCHANGED disk
          /\ Goto(t, "save_fallback")
    /\ UNCHANGED <<lock, local>> /\ FileFrame

\* save_with_regular_io: the temporary file is truncated again and
\* written; a failed write leaves a part of the data and ends the save
SaveFallback(t) ==
    /\ pc[t] = "save_fallback"
    /\ \/ /\ disk' = [disk EXCEPT ![temp_path("bin")] = local[t].data]
          /\ Goto(t, "save_rename")
          /\ UNCHANGED local
       \/ /\ disk' = [disk EXCEPT ![temp_path("bin")] =
                          [local[t].data EXCEPT !.len = local[t].data.len \div 2]]
          /\ Goto(t, "save_return")
          /\ local' = [local EXCEPT ![t].ok = FALSE]
    /\ UNCHANGED lock /\ FileFrame

\* std::fs::rename(temp_path, path), which may fail
SaveRename(t) ==
    /\ pc[t] = "save_rename"
    /\ \/ /\ disk' = IF temp_path("bin") = "bin" THEN disk
                     ELSE [disk EXCEPT !.bin = disk[temp_path("bin")],
                                       ![temp_path("bin")] = NoFile]
          /\ UNCHANGED local
       \/ /\ UNCHANGED disk
          /\ local' = [local EXCEPT ![t].ok = FALSE]
    /\ Goto(t, "save_return")
    /\ UNCHANGED lock /\ FileFrame

\* save_cache_to_file returns, dropping the guard
SaveReturn(t) ==
    /\ pc[t] = "save_return"
    /\ lock' = 0
    /\ Goto(t, "done")
    /\ UNCHANGED <<disk, local>> /\ FileFrame

\* invalidate_cache: cache_path.exists()
BeginInvalidate(t) ==
    /\ pc[t] = "idle"
    /\ local' = [local EXCEPT ![t].op = "invalidate"]
    /\ Goto(t, IF disk.bin.fmt = "none" THEN "done" ELSE "inv_remove")
    /\ UNCHANGED <<disk, lock>> /\ FileFrame

\* std::fs::remove_file, an error when the file is gone by now
InvRemove(t) ==
    /\ pc[t] = "inv_remove"
    /\ disk' = [disk EXCEPT !.bin = NoFile]
    /\ local' = [local EXCEPT ![t].ok = disk.bin.fmt # "none"]
    /\ Goto(t, "done")
    /\ UNCHANGED lock /\ FileFrame

NextFile ==
    \E t \in Threads :
        \/ BeginLoad(t)
        \/ LoadExists(t)
        \/ LoadLock(t)
        \/ LoadRead(t)
        \/ LoadReturn(t)
        \/ LoadRemove(t)
        \/ \E cache \in {OneEntry, TwoEntries} : BeginSave(t, cache)
        \/ SaveLock(t)
        \/ SaveCreate(t)
        \/ SaveCopy(t)
        \/ SaveFlush(t)
        \/ SaveFallback(t)
        \/ SaveRename(t)
        \/ SaveReturn(t)
        \/ BeginInvalidate(t)
        \/ InvRemove(t)

SpecFile == InitFile /\ [][NextFile]_vars

\* The caches the threads are saving
BeingSaved == {local[t].data : t \in {u \in Threads : local[u].op = "save"}}

\* C4: at every step of a save, and wherever a save stops or fails, the
\* file at the final path is absent, the complete file from before, or the
\* complete new cache of some save: never a partially written file.
C4_FinalPathAtomic ==
    \/ disk.bin.fmt = "none"
    \/ /\ disk.bin \in StartFiles \cup BeingSaved
       /\ Complete(disk.bin)

\* A save has failed half way and another is writing, over a cache from
\* before
C4_Witness ==
    /\ \E t \in Threads : pc[t] = "done" /\ local[t].op = "save" /\ ~local[t].ok
    /\ \E t \in Threads : pc[t] = "save_flush"
    /\ disk.tmp.fmt = "cache" /\ ~Complete(disk.tmp)
    /\ disk.bin = serialize(StoredCache)

\* The steps that read, write, rename or remove the cache file or its
\* temporary file
FileSteps ==
    {"load_read", "load_remove", "save_create", "save_copy", "save_flush",
     "save_fallback", "save_rename", "inv_remove"}

\* C5: every operation on the cache file (the read of load_cache, the
\* write and rename of a save, the removals of load_cache and
\* invalidate_cache) is made by the thread holding FILE_LOCK.
C5_FileOpsHoldLock ==
    \A t \in Threads : pc[t] \in FileSteps => lock = t

\* C35: a cache file a save has installed is not deleted by a concurrent
\* load_cache that read and judged an older file: when one thread has
\* finished a successful save and the other a load that read the stale
\* file from before, in whatever order their steps ran, the saved cache is
\* at the cache path.
C35_SavedFileSurvives ==
    \A s, l \in Threads :
        (/\ pc[s] = "done" /\ local[s].op = "save" /\ local[s].ok
         /\ pc[l] = "done" /\ local[l].op = "load"
         /\ local[l].read.ok
         /\ local[l].read.header.rudu_version # CARGO_PKG_VERSION)
            => disk.bin = local[s].data

---------------------------------------------------------------------------
(* MemoryMonitor, src/src/memory.rs: the two predicates and the throttle
   they share.  The clock (now) counts milliseconds here; rss is what
   sysinfo reads for the process at the moment, None when it does not find
   the process. *)

\* What sysinfo may read for the process
Readings == {None} \cup {Some(x) : x \in {973, 1024, 996147, 1048576}}

\* The monitors constructed: limit_mb and check_interval_ms
LimitsMb == {1, 5}
Intervals == {1, 2}

\* warn_threshold, 0.95, as a fraction
warn_threshold == [num |-> 19, den |-> 20]

\* MemoryMonitor::new_with_interval at time t: the first call will refresh
new_with_interval(limit_mb, check_interval_ms, t, reading) ==
    [limit_bytes |-> limit_mb * 1024 * 1024,
     last_check |-> t - check_interval_ms,
     system |-> reading,
     check_interval |-> check_interval_ms]

\* metrics::rss_after_phase: a fresh System's reading, "from KB to bytes"
rss_after_phase(reading) ==
    IF IsSome(reading) THEN Some(Unwrap(reading) * 1024) ELSE None

\* get_current_memory_usage at time t: within check_interval of the last
\* check it returns what the monitor's own System holds for the process;
\* otherwise it notes the time, refreshes that System and returns
\* rss_after_phase()
get_current_memory_usage(m, t, reading) ==
    IF t - m.last_check < m.check_interval
    THEN [usage |-> m.system, monitor |-> m, refreshed |-> FALSE]
    ELSE [usage |-> rss_after_phase(reading),
          monitor |-> [m EXCEPT !.last_check = t, !.system = reading],
          refreshed |-> TRUE]

\* exceeds_limit on the usage get_current_memory_usage returned
exceeds_limit(m, usage) ==
    IF IsSome(usage) THEN Unwrap(usage) >= m.limit_bytes ELSE FALSE

\* nearing_limit with the threshold at the limit itself
nearing_limit_NoThreshold(m, usage) ==
    IF IsSome(usage) THEN Unwrap(usage) >= m.limit_bytes ELSE FALSE

\* nearing_limit: threshold = (limit_bytes as f64 * warn_threshold) as u64,
\* the product truncated to whole bytes
nearing_limit(m, usage) ==
    IF IsSome(usage)
    THEN Unwrap(usage) >= (m.limit_bytes * warn_threshold.num) \div warn_threshold.den
    ELSE FALSE

InitMonitor ==
    /\ now = 0
    /\ rss \in Readings
    /\ monitor \in {new_with_interval(l, T, 0, rss) : l \in LimitsMb, T \in Intervals}
    /\ api = <<>>
    /\ fs = SmallTree
    /\ disk = EmptyDisk
    /\ enabled = TRUE
    /\ hist = <<>>
    /\ ops = 0
    /\ hdr = NoHeader
    /\ probe = <<>>
    /\ verdict = FALSE
    /\ pc = <<>>
    /\ lock = 0
    /\ local = <<>>
    /\ ws = <<>>

MonitorFrame ==
    UNCHANGED <<fs, disk, enabled, hist, ops, hdr, probe, verdict, pc, lock, local, ws>>

\* A millisecond passes
Elapse ==
    /\ now < MaxClock
    /\ now' = now + 1
    /\ UNCHANGED <<monitor, rss, api>>
    /\ MonitorFrame

\* The memory of the process changes
MemoryChanges(reading) ==
    /\ reading # rss
    /\ rss' = reading
    /\ UNCHANGED <<now, monitor, api>>
    /\ MonitorFrame

\* One call of exceeds_limit() or nearing_limit(), g being what its
\* get_current_memory_usage() returned
MonitorCall(op, g) ==
    /\ monitor' = g.monitor
    /\ api' = Append(api, [op |-> op, time |-> now, refreshed |-> g.refreshed,
                           usage |-> g.usage,
                           limit_bytes |-> monitor.limit_bytes,
                           check_interval |-> monitor.check_interval,
                           result |-> IF op = "exceeds_limit"
                                      THEN exceeds_limit(monitor, g.usage)
                                      ELSE nearing_limit(monitor, g.usage)])
    /\ UNCHANGED <<now, rss>>
    /\ MonitorFrame

CallExceedsLimit ==
    /\ Len(api) < MaxMonitorCalls
    /\ MonitorCall("exceeds_limit", get_current_memory_usage(monitor, now, rss))

CallNearingLimit ==
    /\ Len(api) < MaxMonitorCalls
    /\ MonitorCall("nearing_limit", get_current_memory_usage(monitor, now, rss))

NextMonitor ==
    \/ Elapse
    \/ \E reading \in Readings : MemoryChanges(reading)
    \/ CallExceedsLimit
    \/ CallNearingLimit

SpecMonitor == InitMonitor /\ [][NextMonitor]_vars

\* r is at least 95% of L, in whole numbers
AtLeast95Percent(r, L) == r >= (19 * L + 19) \div 20

LastRefresh(i) ==
    LET before == {k \in 1..(i - 1) : api[k].refreshed}
    IN IF before = {} THEN 0 ELSE CHOOSE k \in before : \A q \in before : q <= k

\* C15: the two predicates share one throttle: a call refreshes the RSS
\* sample exactly when it is the first call or at least T_ms have passed
\* since the last refresh, and a call that does not refresh evaluates its
\* predicate on the RSS value the last refresh produced.
C15_SharedThrottle ==
    \A i \in DOMAIN api :
        /\ api[i].refreshed <=>
              \/ LastRefresh(i) = 0
              \/ api[i].time - api[LastRefresh(i)].time >= api[i].check_interval
        /\ (~api[i].refreshed) => api[i].usage = api[LastRefresh(i)].usage

---------------------------------------------------------------------------
(* scan_with_work_stealing, src/src/scan.rs: the body of its rayon::scope,
   step by step.  The closure given to rayon::scope spawns one task per large
   directory and goes on; the spawned tasks run whenever a worker takes
   them, and the scope returns once the closure has returned and every
   spawned task has finished.  Processing one entry (its disk_usage, the
   additions to its ancestors' totals, the child count) is one step. *)

\* A directory with more entries than this is handed to a task of its own
LARGE_DIR_THRESHOLD == 10000

\* The trees scanned: the small tree, and the small tree with root/b filled
\* up to the threshold and just beyond it
StealTrees ==
    { SmallTree,
      [SmallTree EXCEPT ![BulkPath] = NewFile(1, LARGE_DIR_THRESHOLD - 1)],
      [SmallTree EXCEPT ![BulkPath] = NewFile(1, LARGE_DIR_THRESHOLD)] }

StealArgs == {BaseArgs, [BaseArgs EXCEPT !.show_inodes = FALSE, !.sort = "size"]}

\* The entries a walk of tree f yields: WalkDir with the exclusion filter
walk_entries(f, args) ==
    LET kept(p) == /\ f[p].ex
                   /\ ~is_match(expand_exclude_patterns(args.exclude), p)
                   /\ ~component_excluded(args.exclude, p)
    IN SelectSeq(WalkOrder, kept)

\* dir_entry_counts: the number of walked entries with parent d
dir_entry_counts(f, entries, d) ==
    SumOver({p \in Universe : (\E i \in DOMAIN entries : entries[i] = p) /\ Parent(p) = d},
            [p \in Universe |-> f[p].count])

\* large_dirs: the parents with more than LARGE_DIR_THRESHOLD entries
large_dirs(f, entries) ==
    {d \in {Parent(entries[i]) : i \in DOMAIN entries} :
        dir_entry_counts(f, entries, d) > LARGE_DIR_THRESHOLD}

\* The ScanResult of a work-stealing scan, its statistics counting the entries
WsResult_CountsEntries(entries) ==
    [entries |-> entries, cache_hits |-> 0, cache_total |-> Len(entries),
     memory_limit_hit |-> FALSE, memory_status |-> "Normal"]

\* The ScanResult of a work-stealing scan (phase_timings left out)
WsResult(entries) ==
    [entries |-> entries, cache_hits |-> 0, cache_total |-> 0,
     memory_limit_hit |-> FALSE, memory_status |-> "Normal"]

NoResult ==
    [entries |-> <<>>, cache_hits |-> 0, cache_total |-> 0,
     memory_limit_hit |-> FALSE, memory_status |-> "none"]

WsIdle ==
    [phase |-> "idle", args |-> BaseArgs, tasks |-> <<>>, remaining |-> {},
     dir_totals |-> <<>>, directory_children |-> <<>>,
     all_walker_entries |-> <<>>, composed |-> <<>>, entries |-> <<>>,
     result |-> NoResult]

\* What the cache path holds when the scan starts: nothing, a cache saved
\* for Root, a cache of another version (one a load_cache would remove)
StealDisks ==
    { EmptyDisk,
      [EmptyDisk EXCEPT !.bin = serialize(StoredCache)],
      [EmptyDisk EXCEPT !.bin = serialize([StoredCache EXCEPT !.header.rudu_version = "1.3.0"])] }

InitSteal ==
    /\ fs \in StealTrees
    /\ ws = WsIdle
    /\ now = 0
    /\ disk \in StealDisks
    /\ enabled = TRUE
    /\ hist = <<>>
    /\ ops = 0
    /\ hdr = NoHeader
    /\ probe = <<>>
    /\ verdict = FALSE
    /\ api = <<>>
    /\ pc = <<>>
    /\ lock = 0
    /\ local = <<>>
    /\ monitor = <<>>
    /\ rss = None

StealFrame ==
    UNCHANGED <<now, fs, disk, enabled, hist, ops, hdr, probe, verdict, api, pc, lock,
                local, monitor, rss>>

\* The first pass: walk, count the entries per directory, spawn a task for
\* each large directory with its entries, keep the rest for the closure
\* WsStartStep whose remainder keeps the entries of the large directories
WsStartStep_RemainderIsAll(args, entries, large) ==
    ws' = [ws EXCEPT
             !.phase = "remaining",
             !.args = args,
             !.tasks = [d \in large |->
                          {entries[i] : i \in {k \in DOMAIN entries : Parent(entries[k]) = d}}],
             !.remaining = {entries[i] : i \in DOMAIN entries}]

WsStartStep(args, entries, large) ==
    ws' = [ws EXCEPT
             !.phase = "remaining",
             !.args = args,
             !.tasks = [d \in large |->
                          {entries[i] : i \in {k \in DOMAIN entries : Parent(entries[k]) = d}}],
             !.remaining = {entries[i] : i \in {k \in DOMAIN entries :
                                                    Parent(entries[k]) \notin large}}]

WsStartWalked(args, entries) == WsStartStep(args, entries, large_dirs(fs, entries))

WsStart(args) ==
    /\ ws.phase = "idle"
    /\ WsStartWalked(args, walk_entries(fs, args))
    /\ StealFrame

\* What processing entry p does to the two maps: a file's size is added to
\* every ancestor up to root, and the entry is counted as a child of its
\* parent when inode counts are shown
process_entry(w, f, p) ==
    [w EXCEPT
       !.dir_totals =
           IF p \in FilePaths
           THEN AddToParents(@, parent_paths(p, Root), disk_usage(f, p) * f[p].count)
           ELSE @,
       !.directory_children =
           IF w.args.show_inodes
           THEN Insert(@, Parent(p), Get(@, Parent(p), 0) + f[p].count)
           ELSE @]

\* A spawned task processes one entry of its large directory
WsTaskEntry(d, p) ==
    /\ ws.phase \in {"remaining", "compose"}
    /\ d \in DOMAIN ws.tasks /\ p \in ws.tasks[d]
    /\ ws' = [process_entry(ws, fs, p) EXCEPT !.tasks[d] = @ \ {p}]
    /\ StealFrame

\* The closure processes one of the remaining entries
WsRemainingEntry(p) ==
    /\ ws.phase = "remaining"
    /\ p \in ws.remaining
    /\ ws' = [process_entry(ws, fs, p) EXCEPT !.remaining = @ \ {p}]
    /\ StealFrame

\* The remaining entries done, the closure walks the tree once more
WsSecondWalk ==
    /\ ws.phase = "remaining"
    /\ ws.remaining = {}
    /\ ws' = [ws EXCEPT !.phase = "compose",
                        !.all_walker_entries = walk_entries(fs, ws.args)]
    /\ StealFrame

\* The closure composes the FileEntry of one entry of the second walk from
\* the maps as they are
WsComposeEntry(p) ==
    /\ ws.phase = "compose"
    /\ \E i \in DOMAIN ws.all_walker_entries : ws.all_walker_entries[i] = p
    /\ p \notin DOMAIN ws.composed
    /\ ws' = [ws EXCEPT !.composed =
                Insert(@, p,
                       ComposeEntry([path |-> p, is_file |-> p \in FilePaths,
                                     size |-> disk_usage(fs, p), count |-> fs[p].count],
                                    ws.args, ws.dir_totals, ws.directory_children))]
    /\ StealFrame

\* The closure has returned and every spawned task has finished: the scope
\* returns the collected entries, which are sorted
\* The sorted entries become the ScanResult
WsJoinStep(final_entries) ==
    ws' = [ws EXCEPT !.phase = "done", !.entries = final_entries,
                     !.result = WsResult(final_entries)]

WsJoin ==
    /\ ws.phase = "compose"
    /\ \A i \in DOMAIN ws.all_walker_entries : ws.all_walker_entries[i] \in DOMAIN ws.composed
    /\ \A d \in DOMAIN ws.tasks : ws.tasks[d] = {}
    /\ WsJoinStep(sort_entries([i \in DOMAIN ws.all_walker_entries |->
                                    ws.composed[ws.all_walker_entries[i]]],
                                ws.args.sort))
    /\ StealFrame

NextSteal ==
    \/ \E args \in StealArgs : WsStart(args)
    \/ \E d \in DirPaths, p \in Universe : WsTaskEntry(d, p)
    \/ \E p \in Universe : WsRemainingEntry(p)
    \/ WsSecondWalk
    \/ \E p \in Universe : WsComposeEntry(p)
    \/ WsJoin

SpecSteal == InitSteal /\ [][NextSteal]_vars

\* C16: in the work-stealing strategy a FileEntry is composed only when
\* every spawned large-directory task and the remainder mapping have
\* completed, and every directory the scan emits carries the allocated
\* bytes of all the files of its subtree.
C16_ComposeAfterTasks ==
    /\ DOMAIN ws.composed # {} =>
          /\ ws.remaining = {}
          /\ \A d \in DOMAIN ws.tasks : ws.tasks[d] = {}
    /\ ws.phase = "done" =>
          \A k \in DOMAIN ws.entries :
              ws.entries[k].entry_type = "Dir" =>
                  ws.entries[k].size = SubtreeBytes(fs, ws.entries[k].path, ws.args)

\* C30: a work-stealing scan never reads the cache and never writes,
\* renames or removes a cache file: the files at the cache path and the
\* cache flag stay as they were at every step, a stale cache file that a
\* load would remove included; and its result has cache_hits = 0,
\* cache_total = 0 and memory_status = Normal.
C30_StealLeavesCache ==
    /\ [][disk' = disk /\ enabled' = enabled]_vars
    /\ [](ws.phase = "done" =>
            /\ ws.result.cache_hits = 0
            /\ ws.result.cache_total = 0
            /\ ws.result.memory_status = "Normal")

\* A scan that returned entries with a stale cache file at the cache path
C30_Witness ==
    /\ ws.phase = "done"
    /\ Len(ws.entries) > 0
    /\ disk.bin.fmt = "cache"
    /\ disk.bin.header.rudu_version # CARGO_PKG_VERSION

\* Every spawned task and the remainder mapping have processed all their
\* entries
BothDone ==
    /\ ws.phase # "idle"
    /\ ws.remaining = {}
    /\ \A d \in DOMAIN ws.tasks : ws.tasks[d] = {}

\* The entries still to process are split by their parent: those of a
\* directory with more than LARGE_DIR_THRESHOLD collected children are
\* with that directory's task, all others with the remainder, none with
\* both
SplitByParent ==
    ws.phase # "idle" =>
        /\ \A d \in DOMAIN ws.tasks :
              /\ ChildCount(fs, d, ws.args) > LARGE_DIR_THRESHOLD
              /\ \A p \in ws.tasks[d] : Parent(p) = d /\ p \notin ws.remaining
        /\ \A p \in ws.remaining : ChildCount(fs, Parent(p), ws.args) <= LARGE_DIR_THRESHOLD

\* Each directory's total is the allocated bytes of the collected files
\* beneath it
TotalsAreSums ==
    \A D \in DirPaths : Get(ws.dir_totals, D, 0) = SubtreeBytes(fs, D, ws.args)

\* Each parent's child count is the number of its collected children
CountsAreChildren ==
    \A D \in DirPaths : Get(ws.directory_children, D, 0) = ChildCount(fs, D, ws.args)

\* C34 as stated: every collected entry is processed by exactly one of a
\* large-directory task (parent with more than 10,000 collected children)
\* and the remainder mapping, and once both have completed, in every
\* interleaving, each directory's total is the sum of the sizes of the
\* collected files beneath it and each parent's child count is the number
\* of its collected children.
C34_AsStated ==
    /\ SplitByParent
    /\ BothDone => (TotalsAreSums /\ CountsAreChildren)

\* C34, amended: the child counts are the numbers of collected children
\* when the scan shows inode counts; without show_inodes no child is
\* counted and the child-count map stays empty.
C34_Aggregates ==
    /\ SplitByParent
    /\ BothDone =>
          /\ TotalsAreSums
          /\ ws.args.show_inodes => CountsAreChildren
          /\ ~ws.args.show_inodes => ws.directory_children = <<>>

\* A scan with a large directory whose task and remainder have both
\* completed, with inode counts shown
C34_Witness ==
    /\ BothDone
    /\ DOMAIN ws.tasks # {}
    /\ ws.args.show_inodes
    /\ Get(ws.directory_children, DirB, 0) > LARGE_DIR_THRESHOLD

\* C39: on the same tree and arguments, with no cache file and no memory
\* monitor, the work-stealing scan returns the FileEntry list (paths,
\* kinds, sizes, inode counts, order) that the incremental pipeline
\* returns.
C39_StealEqualsIncremental ==
    ws.phase = "done" => ws.entries = FreshEntries(fs, now, ws.args)

=============================================================================
